---- MODULE Spec2Model ----
(***************************************************************************)
(* Greedy-Algorithm-Visualizer: the three step-trace engines               *)
(* (kruskalAlgorithm, primAlgorithm, dijkstraAlgorithm) and the utilities  *)
(* they share (UnionFind, validateGraph, createAdjacencyList).             *)
(*                                                                         *)
(* A behaviour is one session on one graph: either Kruskal followed by     *)
(* Prim on the same graph, or one Dijkstra run.  Every loop iteration of   *)
(* an engine is one action.  The engines share no state.                   *)
(***************************************************************************)
EXTENDS Integers, Sequences, FiniteSets, Bags, TLC

(***************************************************************************)
(* Bounds of the input space.                                              *)
(***************************************************************************)
MaxNodes == 3
MaxEdges == 3
MaxWeight == 2
\* The most requests of the browser client the server has not answered yet.
MaxInFlight == 2

\* The size of the UnionFind a caller tries on its own: one more than the
\* nodes of a graph, so that a path of two parent links can form.
UfSize == MaxNodes + 1

\* JavaScript null / undefined, where an id is expected.
Null == "null"
\* JavaScript Infinity: greater than every finite number (see Lt).
Infinity == -1
\* The ids nodes are drawn from (the ids of the client's sample graph).
NodePool == <<"A", "B", "C", "D", "E", "F">>
\* An id that no node of any graph has.
Unknown == "Z"
\* The value of reading a key an object does not have.
Undefined == -2
\* JavaScript NaN: of type number, neither less than 0 nor at least 0.
NaN == -3
\* A weight that is not of type number (a string, null).
NonNumber == -4
\* An object that is not an array.
NotArray == [key \in {0} |-> Null]

(***************************************************************************)
(* Generic helpers                                                         *)
(***************************************************************************)
Range(s) == {s[i] : i \in DOMAIN s}

Min(a, b) == IF a <= b THEN a ELSE b

RECURSIVE SumSeq(_)
SumSeq(s) == IF s = <<>> THEN 0 ELSE s[1] + SumSeq(Tail(s))

\* JavaScript `a < b` on numbers that may be Infinity.
Lt(a, b) == a # Infinity /\ (b = Infinity \/ a < b)

\* JavaScript `a + b` where a is finite or Infinity and b is finite.
Plus(a, b) == IF a = Infinity THEN Infinity ELSE a + b

\* `${from}-${to}`
Dash(from, to) == from \o "-" \o to

\* Array.prototype.sort with a comparator (a, b) => key(a) - key(b) is a
\* stable sort (ECMAScript 2019).  StableOrder(keys) is the order in which
\* it leaves the positions of an array whose elements have these keys
\* (an insertion sort: a position goes behind every earlier one whose key
\* is not greater).
RECURSIVE StableOrder(_)
StableOrder(keys) ==
    IF keys = <<>> THEN <<>>
    ELSE LET m == Len(keys)
             front == StableOrder(SubSeq(keys, 1, m - 1))
             n == Cardinality({i \in DOMAIN front : keys[front[i]] <= keys[m]})
         IN  SubSeq(front, 1, n) \o <<m>> \o SubSeq(front, n + 1, Len(front))

\* x || 0 for a weight x
OrZero(x) == IF x \in {Undefined, NaN} THEN 0 ELSE x

\* The edges left in input order.
KeepEdgeOrder(s) == s

\* A sort by weight that leaves edges of equal weight in the reverse of
\* their input order.
SortByWeightUnstable(s) ==
    LET n == Len(s)
        reversed == [i \in 1..n |-> s[n + 1 - i]]
        order == StableOrder([i \in 1..n |-> OrZero(reversed[i].weight)])
    IN  [i \in 1..n |-> reversed[order[i]]]

\* edges.sort((a, b) => (a.weight || 0) - (b.weight || 0))
SortByWeight(s) ==
    LET order == StableOrder([i \in DOMAIN s |-> OrZero(s[i].weight)])
    IN  [i \in DOMAIN s |-> s[order[i]]]

\* The queue left in the order its entries were pushed.
KeepQueueOrder(s) == s

\* priorityQueue.sort((a, b) => (a.distance || 0) - (b.distance || 0))
SortByDistance(s) ==
    LET order == StableOrder([i \in DOMAIN s |-> s[i].distance])
    IN  [i \in DOMAIN s |-> s[order[i]]]

(***************************************************************************)
(* utils/graph-utils.js                                                    *)
(* A graph is [nodes |-> sequence of node ids, edges |-> sequence of       *)
(* [id, from, to, weight, directed]]; a node's label and coordinates are   *)
(* read by no engine.  JavaScript index i is position i + 1 here.          *)
(***************************************************************************)

\* new UnionFind(n)
UnionFind(n) == [parent |-> [i \in 0..(n - 1) |-> i], rank |-> [i \in 0..(n - 1) |-> 0]]

\* The parent array after find(x): every node on the path from x to its
\* root points to the root.
RECURSIVE Compress(_, _)
Compress(parent, x) ==
    IF parent[x] = x THEN parent
    ELSE LET p == Compress(parent, parent[x])
         IN  [p EXCEPT ![x] = p[parent[x]]]

\* find returning the parent of x, without following the path to the root.
FindParent(uf, x) == [uf |-> uf, ret |-> uf.parent[x]]

\* find(x): the union-find after the call and the value returned.
find(uf, x) ==
    LET p == Compress(uf.parent, x)
    IN  [uf |-> [uf EXCEPT !.parent = p], ret |-> p[x]]

\* union linking y itself under x, rather than one root under the other.
UnionOfArguments(uf, x, y) ==
    LET fx == find(uf, x)
        fy == find(fx.uf, y)
    IN  IF fx.ret = fy.ret THEN [uf |-> fy.uf, ret |-> FALSE]
        ELSE [uf |-> [fy.uf EXCEPT !.parent[y] = x], ret |-> TRUE]

\* union without ranks: the root of y always goes under the root of x.
UnionUnranked(uf, x, y) ==
    LET fx == find(uf, x)
        fy == find(fx.uf, y)
    IN  IF fx.ret = fy.ret THEN [uf |-> fy.uf, ret |-> FALSE]
        ELSE [uf |-> [fy.uf EXCEPT !.parent[fy.ret] = fx.ret], ret |-> TRUE]

\* union(x, y)
union(uf, x, y) ==
    LET fx == find(uf, x)
        fy == find(fx.uf, y)
        rootX == fx.ret
        rootY == fy.ret
        u == fy.uf
    IN  IF rootX = rootY THEN [uf |-> u, ret |-> FALSE]
        ELSE IF u.rank[rootX] < u.rank[rootY]
             THEN [uf |-> [u EXCEPT !.parent[rootX] = rootY], ret |-> TRUE]
        ELSE IF u.rank[rootX] > u.rank[rootY]
             THEN [uf |-> [u EXCEPT !.parent[rootY] = rootX], ret |-> TRUE]
        ELSE [uf |-> [u EXCEPT !.parent[rootY] = rootX,
                               !.rank[rootX] = u.rank[rootX] + 1],
              ret |-> TRUE]

\* connected with the comparison inverted: find(x) !== find(y).
Disconnected(uf, x, y) ==
    LET fx == find(uf, x)
        fy == find(fx.uf, y)
    IN  [uf |-> fy.uf, ret |-> fx.ret # fy.ret]

\* connected comparing x with itself: find(x) === find(x).
SelfConnected(uf, x, y) ==
    LET fx == find(uf, x)
    IN  [uf |-> fx.uf, ret |-> fx.ret = fx.ret]

\* connected(x, y)
connected(uf, x, y) ==
    LET fx == find(uf, x)
        fy == find(fx.uf, y)
    IN  [uf |-> fy.uf, ret |-> fx.ret = fy.ret]

\* Array.isArray(value)
IsArray(value) == DOMAIN value = 1..Cardinality(DOMAIN value)

\* !edge.from || !edge.to || edge.weight === undefined
LacksField(edge) == edge.from = Null \/ edge.to = Null \/ edge.weight = Undefined

\* typeof edge.weight !== 'number' || edge.weight < 0, for a weight that is
\* not undefined (NaN is of type number, and NaN < 0 is false)
BadWeight(edge) ==
    edge.weight = NonNumber \/ (edge.weight # NaN /\ edge.weight < 0)

\* validateGraph(graph): "ok" when it returns true, else the message of the
\* error thrown; the loop throws at the first edge that fails a test.
validateGraph(graph) ==
    IF "nodes" \notin DOMAIN graph \/ "edges" \notin DOMAIN graph
    THEN "Graph must contain nodes and edges arrays"
    ELSE IF ~IsArray(graph.nodes) \/ ~IsArray(graph.edges)
    THEN "Nodes and edges must be arrays"
    ELSE IF Len(graph.nodes) = 0 THEN "Graph must have at least one node"
    ELSE LET bad == {i \in DOMAIN graph.edges :
                        LacksField(graph.edges[i]) \/ BadWeight(graph.edges[i])}
         IN  IF bad = {} THEN "ok"
             ELSE IF LacksField(graph.edges[CHOOSE i \in bad : \A j \in bad : i <= j])
             THEN "Each edge must have from, to, and weight properties"
             ELSE "Edge weights must be non-negative numbers"

\* The ids that are keys of adjList (and of nodeMap, distances, previous).
NodeIds(graph) == {graph.nodes[i] : i \in DOMAIN graph.nodes} \ {Null}

\* edge.id || `${edge.from}-${edge.to}`
EdgeIdOf(edge) == IF edge.id # Null THEN edge.id ELSE Dash(edge.from, edge.to)

\* The entries with the entry under `to` named after its own direction
\* ("to-from") when the edge has no id.
ArcsAtOwnName(graph, edge, id) ==
    IF edge.from \in NodeIds(graph) /\ edge.to \in NodeIds(graph)
    THEN (IF edge.from = id
          THEN <<[to |-> edge.to, weight |-> OrZero(edge.weight),
                  edgeId |-> EdgeIdOf(edge)]>>
          ELSE <<>>)
         \o
         (IF ~edge.directed /\ edge.to = id
          THEN <<[to |-> edge.from, weight |-> OrZero(edge.weight),
                  edgeId |-> IF edge.id # Null THEN edge.id
                             ELSE Dash(edge.to, edge.from)]>>
          ELSE <<>>)
    ELSE <<>>

\* The entries the edge adds to adjList[id].
ArcsAt(graph, edge, id) ==
    IF edge.from \in NodeIds(graph) /\ edge.to \in NodeIds(graph)
    THEN (IF edge.from = id
          THEN <<[to |-> edge.to, weight |-> OrZero(edge.weight),
                  edgeId |-> EdgeIdOf(edge)]>>
          ELSE <<>>)
         \o
         (IF ~edge.directed /\ edge.to = id
          THEN <<[to |-> edge.from, weight |-> OrZero(edge.weight),
                  edgeId |-> EdgeIdOf(edge)]>>
          ELSE <<>>)
    ELSE <<>>

RECURSIVE ArcsUpTo(_, _, _)
ArcsUpTo(graph, id, k) ==
    IF k = 0 THEN <<>>
    ELSE ArcsUpTo(graph, id, k - 1) \o ArcsAt(graph, graph.edges[k], id)

\* createAdjacencyList(graph)
createAdjacencyList(graph) ==
    [id \in NodeIds(graph) |-> ArcsUpTo(graph, id, Len(graph.edges))]

\* adjList[id] || []
Neighbors(adjList, id) == IF id \in DOMAIN adjList THEN adjList[id] ELSE <<>>

(***************************************************************************)
(* State                                                                   *)
(***************************************************************************)
VARIABLES
    graph,        \* the caller's graph
    pc,           \* "idle", the engine that is running, or how it ended
    error,        \* the message of the Error an engine threw, or Null
    \* kruskalAlgorithm
    kEdges,       \* edges: the sorted copy of graph.edges
    kIndex,       \* index of the next forEach iteration
    kUf,          \* uf
    kMstEdges,    \* mstEdges
    kTotalCost,   \* totalCost
    kSteps,       \* steps
    kResult,      \* <<finalResult>> once returned
    \* primAlgorithm
    pVisited,     \* visited, in insertion order
    pQueue,       \* priorityQueue
    pMstEdges,    \* mstEdges
    pTotalCost,   \* totalCost
    pSteps,       \* steps
    pStepCount,   \* stepCount
    pResult,      \* <<finalResult>> once returned
    \* dijkstraAlgorithm
    dSource,      \* sourceNodeId
    dTarget,      \* targetNodeId, Null when none was given
    dDistances,   \* distances
    dPrevious,    \* previous
    dVisited,     \* visited, in insertion order
    dQueue,       \* priorityQueue
    dSteps,       \* steps
    dStepCount,   \* stepCount
    dResult,      \* <<finalResult>> once returned
    \* a caller of the exported class UnionFind
    ufObj,        \* the UnionFind object
    ufLinks,      \* the pairs <<a, b>> a chain of the unions made so far links
    ufLast,       \* the last call: its arguments, what it returned, uf before it
    \* the browser client, class AlgorithmVisualizer
    currentAlgorithm,  \* this.currentAlgorithm
    currentGraph,      \* this.currentGraph, by the name of its content
    algorithmSteps,    \* this.algorithmSteps
    currentStep,       \* this.currentStep
    runDisabled,       \* run-algorithm-btn.disabled
    stepDisabled,      \* step-btn.disabled and reset-btn.disabled
    alertShown,        \* the message of the last alert(), or Null
    pending            \* the bag of the fetch requests not answered yet

kruskalVars == <<kEdges, kIndex, kUf, kMstEdges, kTotalCost, kSteps, kResult>>

primVars == <<pVisited, pQueue, pMstEdges, pTotalCost, pSteps, pStepCount, pResult>>

dijkstraVars ==
    <<dSource, dTarget, dDistances, dPrevious, dVisited, dQueue, dSteps, dStepCount,
      dResult>>

ufVars == <<ufObj, ufLinks, ufLast>>

clientVars ==
    <<currentAlgorithm, currentGraph, algorithmSteps, currentStep, runDisabled,
      stepDisabled, alertShown, pending>>

vars == <<graph, pc, error, kruskalVars, primVars, dijkstraVars, ufVars, clientVars>>

(***************************************************************************)
(* Snapshots.  A step field built by a copy owns its value; a field that   *)
(* holds the live object itself is read through to the object's current    *)
(* value.                                                                  *)
(***************************************************************************)
\* The array itself in place of a copy of it.
ArrayShared(array) == [own |-> FALSE, val |-> array]

\* [...array]
ArrayCopy(array) == [own |-> TRUE, val |-> array]

\* What a reader of the field sees now, `live` being the engine's object.
Read(cell, live) == IF cell.own THEN cell.val ELSE live

(***************************************************************************)
(* The Kruskal route: kruskalAlgorithm                                     *)
(***************************************************************************)
\* {...edge, status}
WithStatus(edge, status) ==
    [id |-> edge.id, from |-> edge.from, to |-> edge.to, weight |-> edge.weight,
     directed |-> edge.directed, status |-> status]

\* nodeMap: node id -> JavaScript index (the last node with that id)
NodeMap(g) ==
    [id \in NodeIds(g) |->
        (CHOOSE i \in DOMAIN g.nodes :
            /\ g.nodes[i] = id
            /\ \A j \in DOMAIN g.nodes : g.nodes[j] = id => j <= i) - 1]

\* The union-find after getUnionFindState called find on the first k nodes.
RECURSIVE FindAll(_, _, _)
FindAll(uf, nodes, k) ==
    IF k = 0 THEN uf
    ELSE LET before == FindAll(uf, nodes, k - 1)
         IN  IF nodes[k] # Null THEN find(before, k - 1).uf ELSE before

\* Every node with an id reported alone in its component.
EveryNodeAlone(uf, nodes) ==
    [uf |-> uf,
     ret |-> LET ids == SelectSeq(nodes, LAMBDA id : id # Null)
             IN  [k \in DOMAIN ids |-> <<ids[k]>>]]

\* getUnionFindState(uf, nodes): Object.values of an object whose keys are
\* the roots, so the components come in ascending order of root index, each
\* listing its node ids in node order.
getUnionFindState(uf, nodes) ==
    LET n == Len(nodes)
        root == [i \in 1..n |-> find(uf, i - 1).ret]
        keys == SelectSeq([r \in 1..n |-> r - 1],
                          LAMBDA r : \E i \in 1..n : nodes[i] # Null /\ root[i] = r)
        idx == [k \in DOMAIN keys |->
                   SelectSeq([i \in 1..n |-> i],
                             LAMBDA i : nodes[i] # Null /\ root[i] = keys[k])]
    IN  [uf |-> FindAll(uf, nodes, n),
         ret |-> [k \in DOMAIN keys |-> [j \in DOMAIN idx[k] |-> nodes[idx[k][j]]]]]

\* mstEdges.find(mst => mst.id === e.id) ? 'accepted' : 'rejected'
FoundStatus(mst, e) ==
    IF \E j \in DOMAIN mst : mst[j].id = e.id THEN "accepted" ELSE "rejected"

\* sortedEdges of an accept or reject step (index is the JavaScript index).
SortedEdgesAt(edges, mst, index, status) ==
    [k \in DOMAIN edges |->
        WithStatus(edges[k],
                   IF k - 1 < index THEN FoundStatus(mst, edges[k])
                   ELSE IF k - 1 = index THEN status
                   ELSE "pending")]

\* sortedEdges of a complete step.
SortedEdgesDone(edges, mst, index) ==
    [k \in DOMAIN edges |->
        WithStatus(edges[k],
                   IF k - 1 <= index THEN FoundStatus(mst, edges[k]) ELSE "pending")]

\* The complete step emitted whatever the number of accepted edges.
AlwaysComplete(mst, nodeCount) == TRUE

\* mstEdges.length === nodeCount - 1
TreeComplete(mst, nodeCount) == Len(mst) = nodeCount - 1

\* validateGraph and the code up to the initialize step.  sort works in
\* place, on the array [...graph.edges]: the caller's array is sorted too
\* unless that array is a copy.
KruskalStart ==
    /\ pc = "idle"
    /\ IF validateGraph(graph) # "ok"
       THEN /\ pc' = "failed"
            /\ error' = "Kruskal algorithm error: " \o validateGraph(graph)
            /\ UNCHANGED <<graph, kruskalVars>>
       ELSE LET spread == ArrayCopy(graph.edges)
                edges == SortByWeight(spread.val)
                st == getUnionFindState(UnionFind(Len(graph.nodes)), graph.nodes)
            IN  /\ kEdges' = edges
                /\ kUf' = st.uf
                /\ kMstEdges' = <<>>
                /\ kTotalCost' = 0
                /\ kIndex' = 0
                /\ kSteps' = << [step |-> 0,
                                 action |-> "initialize",
                                 currentEdge |-> <<>>,
                                 sortedEdges |-> [k \in DOMAIN edges |->
                                                     WithStatus(edges[k], "pending")],
                                 mstEdges |-> ArrayCopy(<<>>),
                                 unionFindState |-> st.ret,
                                 totalCost |-> 0] >>
                /\ graph' = IF spread.own THEN graph ELSE [graph EXCEPT !.edges = edges]
                /\ pc' = "kruskal"
                /\ UNCHANGED <<error, kResult>>
    /\ UNCHANGED <<clientVars, ufVars, primVars, dijkstraVars>>

\* One call of the forEach callback, for the edge at kIndex.  The `return`
\* after the complete step ends this call only: forEach goes on to kIndex + 1.
KruskalEdge ==
    /\ pc = "kruskal"
    /\ kIndex < Len(kEdges)
    /\ LET index == kIndex
           edge == kEdges[index + 1]
           nodeMap == NodeMap(graph)
           nodeCount == Len(graph.nodes)
       IN  IF \/ edge.from = Null \/ edge.to = Null
              \/ edge.from \notin DOMAIN nodeMap \/ edge.to \notin DOMAIN nodeMap
           THEN /\ kIndex' = index + 1
                /\ UNCHANGED <<kUf, kMstEdges, kTotalCost, kSteps>>
           ELSE LET fromNode == nodeMap[edge.from]
                    toNode == nodeMap[edge.to]
                    c == connected(kUf, fromNode, toNode)
                    wouldCreateCycle == c.ret
                    uf1 == IF wouldCreateCycle THEN c.uf
                           ELSE union(c.uf, fromNode, toNode).uf
                    mst == IF wouldCreateCycle THEN kMstEdges
                           ELSE Append(kMstEdges, WithStatus(edge, "accepted"))
                    cost == IF wouldCreateCycle THEN kTotalCost
                            ELSE kTotalCost + OrZero(edge.weight)
                    action == IF wouldCreateCycle THEN "reject" ELSE "accept"
                    status == IF wouldCreateCycle THEN "rejected" ELSE "accepted"
                    st1 == getUnionFindState(uf1, graph.nodes)
                    st2 == getUnionFindState(st1.uf, graph.nodes)
                    done == TreeComplete(mst, nodeCount)
                    examined == [step |-> index + 1,
                                 action |-> action,
                                 currentEdge |-> <<WithStatus(edge, status)>>,
                                 sortedEdges |-> SortedEdgesAt(kEdges, mst, index, status),
                                 mstEdges |-> ArrayCopy(mst),
                                 unionFindState |-> st1.ret,
                                 totalCost |-> cost]
                    complete == [step |-> index + 2,
                                 action |-> "complete",
                                 currentEdge |-> <<>>,
                                 sortedEdges |-> SortedEdgesDone(kEdges, mst, index),
                                 mstEdges |-> ArrayCopy(mst),
                                 unionFindState |-> st2.ret,
                                 totalCost |-> cost]
                IN  /\ kUf' = IF done THEN st2.uf ELSE st1.uf
                    /\ kMstEdges' = mst
                    /\ kTotalCost' = cost
                    /\ kSteps' = IF done THEN kSteps \o <<examined, complete>>
                                 ELSE Append(kSteps, examined)
                    /\ kIndex' = index + 1
    /\ UNCHANGED <<clientVars, ufVars, graph, pc, error, kEdges, kResult, primVars, dijkstraVars>>

\* forEach is over: return { algorithm, steps, finalResult }.
KruskalReturn ==
    /\ pc = "kruskal"
    /\ kIndex = Len(kEdges)
    /\ kResult' = << [mstEdges |-> kMstEdges,
                      totalCost |-> kTotalCost,
                      edgeCount |-> Len(kMstEdges)] >>
    /\ pc' = "kruskalDone"
    /\ UNCHANGED <<clientVars, ufVars, graph, error, kEdges, kIndex, kUf, kMstEdges, kTotalCost, kSteps, primVars,
                   dijkstraVars>>

\* The trace as a reader of the returned steps sees it.
KruskalView(s) == [s EXCEPT !.mstEdges = Read(s.mstEdges, kMstEdges)]
kruskalTrace == [i \in DOMAIN kSteps |-> KruskalView(kSteps[i])]

(***************************************************************************)
(* The Prim route: primAlgorithm                                           *)
(***************************************************************************)
\* The frontier entries pushed for the arcs that leave `from` towards nodes
\* not in visited.
FrontierEdges(from, arcs, visited) ==
    LET open == SelectSeq(arcs, LAMBDA arc : arc.to # Null /\ arc.to \notin Range(visited))
    IN  [i \in DOMAIN open |->
            [from |-> from, to |-> open[i].to, weight |-> open[i].weight,
             edgeId |-> open[i].edgeId]]

\* The frontier left unfiltered.
KeepVisited(queue, visited) == queue

\* priorityQueue.filter(edge => edge && edge.to && !visited.has(edge.to))
DropVisited(queue, visited) ==
    SelectSeq(queue, LAMBDA e : e.to # Null /\ e.to \notin Range(visited))

\* The frontier left in the order its entries were pushed.
KeepFrontierOrder(queue) == queue

\* priorityQueue.sort((a, b) => (a.weight || 0) - (b.weight || 0))
SortFrontier(queue) == SortByWeight(queue)

\* {...currentEdge, status}
FrontierWithStatus(e, status) ==
    [from |-> e.from, to |-> e.to, weight |-> e.weight, edgeId |-> e.edgeId,
     status |-> status]

\* validateGraph and the code up to the initialize step.
PrimStart(startNodeId) ==
    /\ pc \in {"idle", "kruskalDone"}
    /\ LET startNode == IF startNodeId # Null THEN startNodeId
                        ELSE IF Len(graph.nodes) > 0 THEN graph.nodes[1] ELSE Null
       IN  IF validateGraph(graph) # "ok"
           THEN /\ pc' = "failed"
                /\ error' = "Prim algorithm error: " \o validateGraph(graph)
                /\ UNCHANGED primVars
           ELSE IF startNode = Null
           THEN /\ pc' = "failed"
                /\ error' = "Prim algorithm error: No valid start node found"
                /\ UNCHANGED primVars
           ELSE LET adjList == createAdjacencyList(graph)
                    visited == <<startNode>>
                    queue == SortFrontier(
                                 FrontierEdges(startNode, Neighbors(adjList, startNode),
                                               visited))
                IN  /\ pVisited' = visited
                    /\ pQueue' = queue
                    /\ pMstEdges' = <<>>
                    /\ pTotalCost' = 0
                    /\ pSteps' = << [step |-> 0,
                                     action |-> "initialize",
                                     currentEdge |-> <<>>,
                                     visitedNodes |-> ArrayCopy(visited),
                                     priorityQueue |-> ArrayCopy(queue),
                                     mstEdges |-> ArrayCopy(<<>>),
                                     totalCost |-> 0,
                                     newEdgesAdded |-> <<>>] >>
                    /\ pStepCount' = 1
                    /\ pc' = "prim"
                    /\ UNCHANGED <<error, pResult>>
    /\ UNCHANGED <<clientVars, ufVars, graph, kruskalVars, dijkstraVars>>

\* One iteration of the while loop.
PrimIter ==
    /\ pc = "prim"
    /\ Len(pQueue) > 0
    /\ Len(pVisited) < Len(graph.nodes)
    /\ LET currentEdge == Head(pQueue)
           rest == Tail(pQueue)
       IN  IF currentEdge.to = Null
           THEN /\ pQueue' = rest
                /\ UNCHANGED <<pVisited, pMstEdges, pTotalCost, pSteps, pStepCount>>
           ELSE IF currentEdge.to \in Range(pVisited)
           THEN /\ pQueue' = rest
                /\ pSteps' = Append(pSteps,
                                 [step |-> pStepCount,
                                  action |-> "skip",
                                  currentEdge |-> <<FrontierWithStatus(currentEdge, "skipped")>>,
                                  visitedNodes |-> ArrayCopy(pVisited),
                                  priorityQueue |-> ArrayCopy(rest),
                                  mstEdges |-> ArrayCopy(pMstEdges),
                                  totalCost |-> pTotalCost,
                                  newEdgesAdded |-> <<>>])
                /\ pStepCount' = pStepCount + 1
                /\ UNCHANGED <<pVisited, pMstEdges, pTotalCost>>
           ELSE LET adjList == createAdjacencyList(graph)
                    mst == Append(pMstEdges,
                               [id |-> currentEdge.edgeId, from |-> currentEdge.from,
                                to |-> currentEdge.to, weight |-> currentEdge.weight,
                                status |-> "accepted"])
                    cost == pTotalCost + currentEdge.weight
                    visited == Append(pVisited, currentEdge.to)
                    newEdges == FrontierEdges(currentEdge.to,
                                              Neighbors(adjList, currentEdge.to), visited)
                    queue == SortFrontier(DropVisited(rest \o newEdges, visited))
                IN  /\ pMstEdges' = mst
                    /\ pTotalCost' = cost
                    /\ pVisited' = visited
                    /\ pQueue' = queue
                    /\ pSteps' = Append(pSteps,
                                     [step |-> pStepCount,
                                      action |-> "accept",
                                      currentEdge |-> <<FrontierWithStatus(currentEdge, "accepted")>>,
                                      visitedNodes |-> ArrayCopy(visited),
                                      priorityQueue |-> ArrayCopy(queue),
                                      mstEdges |-> ArrayCopy(mst),
                                      totalCost |-> cost,
                                      newEdgesAdded |-> newEdges])
                    /\ pStepCount' = pStepCount + 1
    /\ UNCHANGED <<clientVars, ufVars, graph, pc, error, pResult, kruskalVars, dijkstraVars>>

\* The loop is over: the complete step if every node was visited, and return.
PrimReturn ==
    /\ pc = "prim"
    /\ ~(Len(pQueue) > 0 /\ Len(pVisited) < Len(graph.nodes))
    /\ pSteps' = IF Len(pVisited) = Len(graph.nodes)
                 THEN Append(pSteps,
                          [step |-> pStepCount,
                           action |-> "complete",
                           currentEdge |-> <<>>,
                           visitedNodes |-> ArrayCopy(pVisited),
                           priorityQueue |-> ArrayCopy(<<>>),
                           mstEdges |-> ArrayCopy(pMstEdges),
                           totalCost |-> pTotalCost,
                           newEdgesAdded |-> <<>>])
                 ELSE pSteps
    /\ pResult' = << [mstEdges |-> pMstEdges,
                      totalCost |-> pTotalCost,
                      edgeCount |-> Len(pMstEdges),
                      startNode |-> pVisited[1]] >>
    /\ pc' = "primDone"
    /\ UNCHANGED <<clientVars, ufVars, graph, error, pVisited, pQueue, pMstEdges, pTotalCost, pStepCount,
                   kruskalVars, dijkstraVars>>

\* The trace as a reader of the returned steps sees it.
PrimView(s) ==
    [s EXCEPT !.visitedNodes = Read(s.visitedNodes, pVisited),
              !.priorityQueue = Read(s.priorityQueue, pQueue),
              !.mstEdges = Read(s.mstEdges, pMstEdges)]
primTrace == [i \in DOMAIN pSteps |-> PrimView(pSteps[i])]

(***************************************************************************)
(* The Dijkstra route: dijkstraAlgorithm                                   *)
(***************************************************************************)
\* object[key]
At(object, key) == IF key \in DOMAIN object THEN object[key] ELSE Undefined

\* safeCloneDistances(distances)
safeCloneDistances(distances) ==
    [own |-> TRUE, val |-> [id \in DOMAIN distances |-> distances[id]]]

\* safeClonePrevious(previous)
safeClonePrevious(previous) ==
    [own |-> TRUE, val |-> [id \in DOMAIN previous |-> previous[id]]]

\* d === Infinity ? '∞' : String(d || 0)
DistanceStr(d) ==
    IF d = Infinity THEN "Infinity" ELSE IF d = Undefined THEN "0" ELSE ToString(d)

\* The while loop of getShortestPaths: the path built backwards from current.
RECURSIVE WalkBack(_, _, _, _, _, _)
WalkBack(previous, source, current, path, steps, maxSteps) ==
    IF current # Null /\ steps < maxSteps
    THEN IF current = source THEN <<current>> \o path
         ELSE WalkBack(previous, source,
                       IF current \in DOMAIN previous THEN previous[current] ELSE Null,
                       <<current>> \o path, steps + 1, maxSteps)
    ELSE path

\* The entry made without checking that the walk ended at the source.
PathEntryUnchecked(path, source, distances, nodeId) ==
    [path |-> path,
     distance |-> IF nodeId \in DOMAIN distances THEN distances[nodeId] ELSE Infinity]

\* The entry getShortestPaths makes for a path built by the walk.
PathEntry(path, source, distances, nodeId) ==
    IF Len(path) > 0 /\ path[1] = source
    THEN [path |-> path,
          distance |-> IF nodeId \in DOMAIN distances THEN distances[nodeId] ELSE Infinity]
    ELSE [path |-> <<>>, distance |-> Infinity]

\* getShortestPaths(previous, source, processedNodes, distances)
getShortestPaths(previous, source, processedNodes, distances) ==
    [nodeId \in Range(processedNodes) \ {Null} |->
        IF nodeId = source THEN [path |-> <<source>>, distance |-> 0]
        ELSE PathEntry(WalkBack(previous, source, nodeId, <<>>, 0,
                                Len(processedNodes) + 1),
                       source, distances, nodeId)]

\* The new entry pushed without removing the old entry of the node.
PushOnly(queue, neighborId, newDistance) ==
    Append(queue, [nodeId |-> neighborId, distance |-> newDistance])

\* priorityQueue.filter(item => item.nodeId !== neighborId), then push
Requeue(queue, neighborId, newDistance) ==
    Append(SelectSeq(queue, LAMBDA item : item.nodeId # neighborId),
           [nodeId |-> neighborId, distance |-> newDistance])

\* One call of the callback of neighbors.forEach, for edge, on the
\* distances, previous, priorityQueue and updatedNeighbors b left before it.
RelaxEdge(b, edge, currentNodeId, visited) ==
    LET neighborId == edge.to
        newDistance == Plus(b.distances[currentNodeId], edge.weight)
        oldDistance == b.distances[neighborId]
    IN  IF neighborId # Null /\ neighborId \notin Range(visited)
           /\ Lt(newDistance, oldDistance)
        THEN [distances |-> [b.distances EXCEPT ![neighborId] = newDistance],
              previous |-> [b.previous EXCEPT ![neighborId] = currentNodeId],
              queue |-> Requeue(b.queue, neighborId, newDistance),
              updatedNeighbors |->
                  Append(b.updatedNeighbors,
                         [nodeId |-> neighborId,
                          oldDistance |-> DistanceStr(oldDistance),
                          newDistance |-> DistanceStr(newDistance),
                          via |-> currentNodeId])]
        ELSE b

\* neighbors.forEach(edge => ...) up to the k-th neighbour: the distances,
\* previous, priorityQueue and updatedNeighbors it leaves.  (The quantifier
\* binds the result of the first k - 1 calls to a value, worked out once.)
RECURSIVE Relax(_, _, _, _, _, _, _)
Relax(neighbors, k, currentNodeId, visited, distances, previous, queue) ==
    IF k = 0
    THEN [distances |-> distances, previous |-> previous, queue |-> queue,
          updatedNeighbors |-> <<>>]
    ELSE CHOOSE after \in
             {RelaxEdge(b, neighbors[k], currentNodeId, visited) :
                 b \in {Relax(neighbors, k - 1, currentNodeId, visited, distances,
                              previous, queue)}} : TRUE

\* The checks of sourceNodeId: "ok", else the message of the error thrown.
SourceChecks(g, sourceNodeId) ==
    IF sourceNodeId = Null THEN "Source node ID is required"
    ELSE IF sourceNodeId \notin Range(g.nodes)
         THEN "Source node '" \o sourceNodeId \o "' not found in graph"
    ELSE "ok"

\* The missing source reported before the graph is validated.
MissingSourceFirst(g, sourceNodeId) ==
    IF sourceNodeId = Null THEN "Source node ID is required"
    ELSE IF validateGraph(g) # "ok" THEN validateGraph(g)
    ELSE SourceChecks(g, sourceNodeId)

\* validateGraph(graph), then the checks of sourceNodeId.
DijkstraChecks(g, sourceNodeId) ==
    IF validateGraph(g) # "ok" THEN validateGraph(g)
    ELSE SourceChecks(g, sourceNodeId)

\* The checks and the code up to the initialize step.
DijkstraStart(sourceNodeId, targetNodeId) ==
    /\ pc = "idle"
    /\ IF DijkstraChecks(graph, sourceNodeId) # "ok"
       THEN /\ pc' = "failed"
            /\ error' = "Dijkstra algorithm error: "
                            \o DijkstraChecks(graph, sourceNodeId)
            /\ dSource' = sourceNodeId
            /\ dTarget' = targetNodeId
            /\ UNCHANGED <<dDistances, dPrevious, dVisited, dQueue, dSteps, dStepCount,
                           dResult>>
       ELSE LET distances == [id \in NodeIds(graph) |->
                                 IF id = sourceNodeId THEN 0 ELSE Infinity]
                previous == [id \in NodeIds(graph) |-> Null]
                queue == <<[nodeId |-> sourceNodeId, distance |-> 0]>>
            IN  /\ dSource' = sourceNodeId
                /\ dTarget' = targetNodeId
                /\ dDistances' = distances
                /\ dPrevious' = previous
                /\ dVisited' = <<>>
                /\ dQueue' = queue
                /\ dSteps' = << [step |-> 0,
                                 action |-> "initialize",
                                 description |-> "Starting Dijkstra's Algorithm from node "
                                                     \o sourceNodeId,
                                 currentNode |-> Null,
                                 distances |-> safeCloneDistances(distances),
                                 previous |-> safeClonePrevious(previous),
                                 visited |-> ArrayCopy(<<>>),
                                 priorityQueue |-> ArrayCopy(queue),
                                 shortestPaths |-> <<>>,
                                 updatedNeighbors |-> <<>>] >>
                /\ dStepCount' = 1
                /\ pc' = "dijkstra"
                /\ UNCHANGED <<error, dResult>>
    /\ UNCHANGED <<clientVars, ufVars, graph, kruskalVars, primVars>>

\* The loop never stopped at the target.
TargetIgnored(targetNodeId, currentNodeId) == FALSE

\* targetNodeId && currentNodeId === targetNodeId
TargetReached(targetNodeId, currentNodeId) ==
    targetNodeId # Null /\ currentNodeId = targetNodeId

\* One iteration of the while loop.
DijkstraIter ==
    /\ pc = "dijkstra"
    /\ Len(dQueue) > 0
    /\ \E sorted \in {SortByDistance(dQueue)} :
       \E neighbors \in {Neighbors(createAdjacencyList(graph), Head(sorted).nodeId)} :
       LET current == Head(sorted)
           rest == Tail(sorted)
           currentNodeId == current.nodeId
       IN  IF currentNodeId = Null \/ currentNodeId \in Range(dVisited)
           THEN /\ dQueue' = rest
                /\ UNCHANGED <<pc, dDistances, dPrevious, dVisited, dSteps, dStepCount>>
           ELSE LET visited == Append(dVisited, currentNodeId)
                    process ==
                        [step |-> dStepCount,
                         action |-> "process_node",
                         description |-> "Processing node " \o currentNodeId
                                             \o " with distance "
                                             \o DistanceStr(dDistances[currentNodeId]),
                         currentNode |-> currentNodeId,
                         distances |-> safeCloneDistances(dDistances),
                         previous |-> safeClonePrevious(dPrevious),
                         visited |-> ArrayCopy(visited),
                         priorityQueue |-> ArrayCopy(rest),
                         shortestPaths |-> getShortestPaths(dPrevious, dSource, visited,
                                                            dDistances),
                         updatedNeighbors |-> <<>>]
                    r == Relax(neighbors, Len(neighbors), currentNodeId, visited,
                               dDistances, dPrevious, rest)
                    update ==
                        [step |-> dStepCount + 1,
                         action |-> "update_distances",
                         description |-> "Updated distances for "
                                             \o ToString(Len(r.updatedNeighbors))
                                             \o " neighbor(s) of node " \o currentNodeId,
                         currentNode |-> currentNodeId,
                         distances |-> safeCloneDistances(r.distances),
                         previous |-> safeClonePrevious(r.previous),
                         visited |-> ArrayCopy(visited),
                         priorityQueue |-> ArrayCopy(r.queue),
                         shortestPaths |-> getShortestPaths(r.previous, dSource, visited,
                                                            r.distances),
                         updatedNeighbors |-> r.updatedNeighbors]
                IN  IF TargetReached(dTarget, currentNodeId)
                    THEN /\ dVisited' = visited
                         /\ dQueue' = rest
                         /\ dSteps' = Append(dSteps, process)
                         /\ dStepCount' = dStepCount + 1
                         /\ pc' = "dijkstraBreak"
                         /\ UNCHANGED <<dDistances, dPrevious>>
                    ELSE /\ dVisited' = visited
                         /\ dQueue' = r.queue
                         /\ dDistances' = r.distances
                         /\ dPrevious' = r.previous
                         /\ dSteps' = IF Len(r.updatedNeighbors) > 0
                                      THEN dSteps \o <<process, update>>
                                      ELSE Append(dSteps, process)
                         /\ dStepCount' = IF Len(r.updatedNeighbors) > 0
                                          THEN dStepCount + 2 ELSE dStepCount + 1
                         /\ UNCHANGED pc
    /\ UNCHANGED <<clientVars, ufVars, graph, error, dSource, dTarget, dResult, kruskalVars, primVars>>

RECURSIVE Join(_, _)
\* path.join(separator)
Join(path, separator) ==
    IF Len(path) = 0 THEN ""
    ELSE IF Len(path) = 1 THEN path[1]
    ELSE path[1] \o separator \o Join(Tail(path), separator)

\* finalDescription
FinalDescription(source, target, distances, finalPaths) ==
    IF target = Null THEN "All shortest paths from " \o source \o " computed"
    ELSE IF At(distances, target) = Infinity
         THEN "No path exists from " \o source \o " to " \o target
    ELSE "Shortest path from " \o source \o " to " \o target \o ": "
         \o (IF target \in DOMAIN finalPaths /\ Len(finalPaths[target].path) > 0
             THEN Join(finalPaths[target].path, " -> ") ELSE "No path")
         \o " (distance: " \o DistanceStr(At(distances, target)) \o ")"

\* The final step pushed as one more update_distances step.
FinalStepAsUpdate(stepCount, finalDescription, distances, previous, visited, finalPaths) ==
    [step |-> stepCount,
     action |-> "update_distances",
     description |-> finalDescription,
     currentNode |-> Null,
     distances |-> safeCloneDistances(distances),
     previous |-> safeClonePrevious(previous),
     visited |-> ArrayCopy(visited),
     priorityQueue |-> ArrayCopy(<<>>),
     shortestPaths |-> finalPaths,
     updatedNeighbors |-> <<>>]

\* The step pushed after the loop.
FinalStep(stepCount, finalDescription, distances, previous, visited, finalPaths) ==
    [step |-> stepCount,
     action |-> "complete",
     description |-> finalDescription,
     currentNode |-> Null,
     distances |-> safeCloneDistances(distances),
     previous |-> safeClonePrevious(previous),
     visited |-> ArrayCopy(visited),
     priorityQueue |-> ArrayCopy(<<>>),
     shortestPaths |-> finalPaths,
     updatedNeighbors |-> <<>>]

\* The while loop never left through its condition.
NeverOver(queue) == FALSE

\* The condition of the while loop is false: priorityQueue.length > 0 fails.
LoopOver(queue) == Len(queue) = 0

\* The loop is over (the queue is empty, or the target was reached): the
\* complete step and the result.
DijkstraReturn ==
    /\ \/ pc = "dijkstra" /\ LoopOver(dQueue)
       \/ pc = "dijkstraBreak"
    /\ LET finalPaths == getShortestPaths(dPrevious, dSource, graph.nodes, dDistances)
       IN  /\ dSteps' = Append(dSteps,
                            FinalStep(dStepCount,
                                      FinalDescription(dSource, dTarget, dDistances,
                                                       finalPaths),
                                      dDistances, dPrevious, dVisited, finalPaths))
           /\ dResult' = << [sourceNode |-> dSource,
                             targetNode |-> dTarget,
                             distances |-> safeCloneDistances(dDistances).val,
                             shortestPaths |-> finalPaths,
                             pathExists |-> IF dTarget # Null
                                            THEN At(dDistances, dTarget) # Infinity
                                            ELSE TRUE] >>
    /\ pc' = "dijkstraDone"
    /\ UNCHANGED <<clientVars, ufVars, graph, error, dSource, dTarget, dDistances, dPrevious, dVisited, dQueue,
                   dStepCount, kruskalVars, primVars>>

\* The trace as a reader of the returned steps sees it.
DijkstraView(s) ==
    [s EXCEPT !.distances = Read(s.distances, dDistances),
              !.previous = Read(s.previous, dPrevious),
              !.visited = Read(s.visited, dVisited),
              !.priorityQueue = Read(s.priorityQueue, dQueue)]
dijkstraTrace == [i \in DOMAIN dSteps |-> DijkstraView(dSteps[i])]

(***************************************************************************)
(* Inputs                                                                  *)
(***************************************************************************)
Edge(from, to, weight, directed, withId) ==
    [id |-> IF withId THEN Dash(from, to) ELSE Null,
     from |-> from, to |-> to, weight |-> weight, directed |-> directed]

\* The pairs of node positions an undirected edge may join, in the order
\* <<1,2>>, <<2,3>>, <<1,3>>, <<3,4>>, <<2,4>>, <<1,4>>, ... restricted to the
\* first n nodes and to the first MaxEdges pairs.
RECURSIVE PairsTo(_)
PairsTo(j) ==
    IF j < 2 THEN <<>> ELSE PairsTo(j - 1) \o [i \in 1..(j - 1) |-> <<j - i, j>>]

Pairs(n) == SubSeq(PairsTo(n), 1, Min(MaxEdges, Len(PairsTo(n))))

\* The undirected edges of the chosen pairs, in the order of Pairs(n).
PlainEdges(n, chosen, weight, withId) ==
    LET pairs == Pairs(n)
        ks == SelectSeq([k \in DOMAIN pairs |-> k], LAMBDA k : k \in chosen)
    IN  [j \in DOMAIN ks |->
            Edge(NodePool[pairs[ks[j]][1]], NodePool[pairs[ks[j]][2]],
                 weight[ks[j]], FALSE, withId)]

\* One more edge of a less usual kind: directed, to or from an unknown
\* node, a self-loop of weight 0, or an edge from B to A of weight 0 whose
\* id does not name its endpoints.
OddEdges(n) ==
    {Edge("A", Unknown, 1, FALSE, TRUE), Edge(Unknown, "A", 1, FALSE, TRUE),
     Edge("A", "A", 0, FALSE, TRUE)}
    \union (IF n >= 2
            THEN {Edge("A", "B", 1, TRUE, TRUE), Edge("B", "A", 1, TRUE, TRUE),
                  [Edge("B", "A", 0, FALSE, TRUE) EXCEPT !.id = "e1"]}
            ELSE {})

\* The graphs validateGraph accepts: n nodes, undirected edges that are
\* light (weight 1) or heavy (weight MaxWeight) on some of the pairs, all
\* with an id or all without, and possibly one odd edge after them when at
\* most one of them is heavy.
ValidGraphs ==
    UNION {
      UNION {
        UNION {
          {[nodes |-> SubSeq(NodePool, 1, n),
            edges |-> PlainEdges(n, chosen, weight, TRUE)],
           [nodes |-> SubSeq(NodePool, 1, n),
            edges |-> PlainEdges(n, chosen, weight, FALSE)]}
          \union
          (IF Cardinality({k \in chosen : weight[k] # 1}) <= 1
           THEN {[nodes |-> SubSeq(NodePool, 1, n),
                  edges |-> Append(PlainEdges(n, chosen, weight, TRUE), odd)] :
                    odd \in OddEdges(n)}
           ELSE {})
          : weight \in [chosen -> {1, MaxWeight}] }
        : chosen \in SUBSET (1..Len(Pairs(n))) }
      : n \in 1..MaxNodes }

\* getSampleGraphData() of the client.
SampleGraph ==
    [nodes |-> <<"A", "B", "C", "D", "E", "F">>,
     edges |-> << Edge("A", "B", 4, FALSE, TRUE), Edge("A", "D", 2, FALSE, TRUE),
                  Edge("B", "C", 3, FALSE, TRUE), Edge("B", "D", 1, FALSE, TRUE),
                  Edge("B", "E", 7, FALSE, TRUE), Edge("C", "E", 5, FALSE, TRUE),
                  Edge("C", "F", 2, FALSE, TRUE), Edge("D", "E", 6, FALSE, TRUE),
                  Edge("E", "F", 4, FALSE, TRUE) >>]

\* Graphs validateGraph refuses: no nodes or no edges, nodes or edges that
\* are no array, no node, and after a good edge an edge without from, to or
\* weight, of negative weight or of a weight that is no number (alone, and
\* followed by an edge that fails the other test).
InvalidGraphs ==
    { [edges |-> <<>>],
      [nodes |-> <<"A">>],
      [nodes |-> NotArray, edges |-> <<>>],
      [nodes |-> <<"A">>, edges |-> NotArray],
      [nodes |-> <<>>, edges |-> <<>>] }
    \union
    { [nodes |-> <<"A", "B">>, edges |-> <<Edge("A", "B", 0, FALSE, TRUE)>> \o bad] :
        bad \in { <<Edge(Null, "B", 1, FALSE, FALSE)>>,
                  <<Edge("A", Null, 1, FALSE, FALSE)>>,
                  <<Edge("A", "B", Undefined, FALSE, TRUE)>>,
                  <<Edge("A", "B", -1, FALSE, TRUE)>>,
                  <<Edge("A", "B", NonNumber, FALSE, TRUE)>>,
                  <<Edge("A", "B", -1, FALSE, TRUE), Edge("A", Null, 1, FALSE, FALSE)>>,
                  <<Edge("A", Null, 1, FALSE, FALSE), Edge("A", "B", -1, FALSE, TRUE)>> } }

\* Graphs validateGraph accepts although the weight of an edge is NaN.
NaNGraphs ==
    { [nodes |-> <<"A", "B">>, edges |-> <<Edge("A", "B", NaN, FALSE, TRUE)>>],
      [nodes |-> <<"A", "B">>,
       edges |-> <<Edge("A", "B", 1, FALSE, TRUE), Edge("B", "A", NaN, FALSE, TRUE)>>] }

\* Graphs validateGraph accepts although a node has no id.
IdlessGraphs ==
    { [nodes |-> <<Null>>, edges |-> <<>>],
      [nodes |-> <<Null, "A">>, edges |-> <<>>] }

\* A graph validateGraph accepts whose edges have no id, two of them joining
\* the same two nodes.
ParallelGraphs ==
    { [nodes |-> <<"A", "B", "C">>,
       edges |-> << Edge("A", "B", 1, FALSE, FALSE), Edge("B", "A", 1, FALSE, FALSE),
                    Edge("B", "C", MaxWeight, FALSE, FALSE) >>] }

Graphs ==
    ValidGraphs \union {SampleGraph} \union ParallelGraphs \union IdlessGraphs \union NaNGraphs
        \union InvalidGraphs

EnginesIdle ==
    /\ pc = "idle"
    /\ error = Null
    /\ kEdges = <<>>
    /\ kIndex = 0
    /\ kUf = UnionFind(0)
    /\ kMstEdges = <<>>
    /\ kTotalCost = 0
    /\ kSteps = <<>>
    /\ kResult = <<>>
    /\ pVisited = <<>>
    /\ pQueue = <<>>
    /\ pMstEdges = <<>>
    /\ pTotalCost = 0
    /\ pSteps = <<>>
    /\ pStepCount = 0
    /\ pResult = <<>>
    /\ dSource = Null
    /\ dTarget = Null
    /\ dDistances = <<>>
    /\ dPrevious = <<>>
    /\ dVisited = <<>>
    /\ dQueue = <<>>
    /\ dSteps = <<>>
    /\ dStepCount = 0
    /\ dResult = <<>>

\* new AlgorithmVisualizer(): Kruskal is selected, loadSampleGraph() has
\* loaded the sample graph and reset the visualization.
ClientConstructed ==
    /\ currentAlgorithm = "kruskal"
    /\ currentGraph = "sample"
    /\ algorithmSteps = <<>>
    /\ currentStep = 0
    /\ runDisabled = FALSE
    /\ stepDisabled = TRUE
    /\ alertShown = Null
    /\ pending = EmptyBag

\* No call made yet on the UnionFind object u.
NoCall(u) ==
    [op |-> "new", x |-> 0, y |-> 0, ret |-> FALSE, before |-> u, linked |-> FALSE]

Init ==
    /\ graph \in Graphs
    /\ EnginesIdle
    /\ ClientConstructed
    /\ ufObj = UnionFind(0)
    /\ ufLinks = {}
    /\ ufLast = NoCall(UnionFind(0))

\* The start nodes a caller passes to primAlgorithm: none, a node, no node.
StartNodeIds ==
    {Null, Unknown} \union (IF validateGraph(graph) = "ok" THEN NodeIds(graph) ELSE {"A"})

\* The <<sourceNodeId, targetNodeId>> a caller passes to dijkstraAlgorithm:
\* every source without a target, and the first node with every target
\* (a node, or the id of no node); no source, or the id of no node.
DijkstraRequests ==
    IF validateGraph(graph) = "ok"
    THEN {<<source, Null>> : source \in {Null, Unknown} \union NodeIds(graph)}
         \union {<<graph.nodes[1], target>> : target \in {Unknown} \union NodeIds(graph)}
    ELSE {<<source, Null>> : source \in {Null, Unknown, "A"}}

Next ==
    \/ KruskalStart
    \/ KruskalEdge
    \/ KruskalReturn
    \/ \E startNodeId \in StartNodeIds : PrimStart(startNodeId)
    \/ PrimIter
    \/ PrimReturn
    \/ \E request \in DijkstraRequests : DijkstraStart(request[1], request[2])
    \/ DijkstraIter
    \/ DijkstraReturn

Spec == Init /\ [][Next]_vars

(***************************************************************************)
(* Reference notions the properties are stated with                        *)
(***************************************************************************)
\* The nodes reachable from the set S along the arcs (pairs <<u, v>>).
RECURSIVE Closure(_, _)
Closure(S, arcs) ==
    LET T == S \union {a[2] : a \in {b \in arcs : b[1] \in S}}
    IN  IF T = S THEN S ELSE Closure(T, arcs)

\* The arcs of the adjacency list, as pairs and with their weights.
AdjArcs(g) ==
    LET adjList == createAdjacencyList(g)
    IN  UNION {{<<id, adjList[id][k].to>> : k \in DOMAIN adjList[id]} :
                  id \in DOMAIN adjList}

WeightedArcs(g) ==
    LET adjList == createAdjacencyList(g)
    IN  UNION {{<<id, adjList[id][k].to, adjList[id][k].weight>> :
                      k \in DOMAIN adjList[id]} : id \in DOMAIN adjList}

\* The positions of the edges whose two endpoints are nodes of the graph.
KnownEnds(g, e) == e.from \in NodeIds(g) /\ e.to \in NodeIds(g)
GoodEdges(g) == {k \in DOMAIN g.edges : KnownEnds(g, g.edges[k])}

\* The edges at the positions T, passable in both directions.
BothWays(edges, T) ==
    {<<edges[k].from, edges[k].to>> : k \in T} \union {<<edges[k].to, edges[k].from>> : k \in T}

\* Every weight is a non-negative number.
WeightsAreNumbers(g) == \A k \in DOMAIN g.edges : g.edges[k].weight \in Nat

\* Every node has an id of its own.
NodesWellFormed(g) == Cardinality(NodeIds(g)) = Len(g.nodes) /\ Len(g.nodes) > 0

\* Connected when edge directions are ignored.
WeaklyConnected(g) ==
    /\ NodesWellFormed(g)
    /\ Closure({g.nodes[1]}, BothWays(g.edges, GoodEdges(g))) = NodeIds(g)

\* Every node reaches every node along the adjacency arcs.
StronglyConnected(g) ==
    /\ NodesWellFormed(g)
    /\ \A u \in NodeIds(g) : Closure({u}, AdjArcs(g)) = NodeIds(g)

NoDirectedEdge(g) == \A k \in DOMAIN g.edges : ~g.edges[k].directed

RECURSIVE WeightSum(_, _)
WeightSum(edges, T) ==
    IF T = {} THEN 0
    ELSE LET k == CHOOSE x \in T : TRUE
         IN  edges[k].weight + WeightSum(edges, T \ {k})

\* The sets of edge positions that are spanning trees of the graph.
SpanningTrees(g) ==
    {T \in SUBSET GoodEdges(g) :
        /\ Cardinality(T) = Len(g.nodes) - 1
        /\ Closure({g.nodes[1]}, BothWays(g.edges, T)) = NodeIds(g)}

\* The least total weight of a spanning tree (of a connected graph).
MinSpanningCost(g) ==
    LET costs == {WeightSum(g.edges, T) : T \in SpanningTrees(g)}
    IN  CHOOSE c \in costs : \A d \in costs : c <= d

\* The edges (a sequence of records with from and to) form a forest on ids:
\* each edge joins two components, so |components| = |ids| - |edges|.
IsForest(ids, edges) ==
    /\ \A k \in DOMAIN edges : edges[k].from \in ids /\ edges[k].to \in ids
    /\ Cardinality({Closure({u}, BothWays(edges, DOMAIN edges)) : u \in ids})
           = Cardinality(ids) - Len(edges)

\* The least of a set of distances (Infinity when all are).
MinDistance(S) ==
    IF S \ {Infinity} = {} THEN Infinity
    ELSE CHOOSE d \in S \ {Infinity} : \A x \in S \ {Infinity} : d <= x

\* Bellman-Ford: the least weight of a path of at most k more arcs.
RECURSIVE Shortest(_, _, _)
Shortest(dist, arcs, k) ==
    IF k = 0 THEN dist
    ELSE Shortest([v \in DOMAIN dist |->
                      MinDistance({dist[v]} \union
                                  {Plus(dist[a[1]], a[3]) : a \in {b \in arcs : b[2] = v}})],
                  arcs, k - 1)

\* The least weight of a path from source to each node along the arcs.
TrueDistances(g, source) ==
    Shortest([id \in NodeIds(g) |-> IF id = source THEN 0 ELSE Infinity],
             WeightedArcs(g), Cardinality(NodeIds(g)))

\* Step numbers start at 0 and strictly increase.
StepNumbersIncrease(trace) ==
    Len(trace) > 0 =>
        /\ trace[1].step = 0
        /\ \A i \in 1..(Len(trace) - 1) : trace[i].step < trace[i + 1].step

\* Every step of the trace is in the later trace, unchanged.
PrefixOf(trace, later) ==
    \A i \in DOMAIN trace : i \in DOMAIN later /\ later[i] = trace[i]

\* The calls of dijkstraAlgorithm alone.  The function runs to completion
\* once called: no iteration of its loop and no return waits for ever.
DijkstraNext ==
    \/ \E request \in DijkstraRequests : DijkstraStart(request[1], request[2])
    \/ DijkstraIter
    \/ DijkstraReturn

LiveSpec ==
    Init /\ [][DijkstraNext]_vars /\ WF_vars(DijkstraIter) /\ WF_vars(DijkstraReturn)

(***************************************************************************)
(* The class UnionFind on its own: a caller makes any sequence of union,   *)
(* find and connected calls on an object of UfSize elements.               *)
(***************************************************************************)
Elements == 0..(UfSize - 1)

\* x and y are linked by a chain of the unions made so far.
Linked(links, x, y) == <<x, y>> \in links \/ x = y

\* The pairs a chain links once x and y are united: those linked before, and
\* those a chain led from to x and to y.
Chains(links, x, y) ==
    {p \in Elements \X Elements :
        \/ Linked(links, p[1], p[2])
        \/ Linked(links, p[1], x) /\ Linked(links, y, p[2])
        \/ Linked(links, p[1], y) /\ Linked(links, x, p[2])}

UfInit ==
    /\ graph = [nodes |-> <<>>, edges |-> <<>>]
    /\ EnginesIdle
    /\ ClientConstructed
    /\ ufObj = UnionFind(UfSize)
    /\ ufLinks = {}
    /\ ufLast = NoCall(UnionFind(UfSize))

\* union(x, y) called on the object
UfUnion(x, y) ==
    /\ LET call == union(ufObj, x, y)
       IN  /\ ufObj' = call.uf
           /\ ufLast' = [op |-> "union", x |-> x, y |-> y, ret |-> call.ret,
                         before |-> ufObj, linked |-> Linked(ufLinks, x, y)]
    /\ ufLinks' = Chains(ufLinks, x, y)
    /\ UNCHANGED <<clientVars, graph, pc, error, kruskalVars, primVars, dijkstraVars>>

\* find(x) called on the object
UfFind(x) ==
    /\ LET call == find(ufObj, x)
       IN  /\ ufObj' = call.uf
           /\ ufLast' = [op |-> "find", x |-> x, y |-> x, ret |-> call.ret,
                         before |-> ufObj, linked |-> TRUE]
    /\ UNCHANGED <<clientVars, ufLinks, graph, pc, error, kruskalVars, primVars, dijkstraVars>>

\* connected(x, y) called on the object
UfConnected(x, y) ==
    /\ LET call == connected(ufObj, x, y)
       IN  /\ ufObj' = call.uf
           /\ ufLast' = [op |-> "connected", x |-> x, y |-> y, ret |-> call.ret,
                         before |-> ufObj, linked |-> Linked(ufLinks, x, y)]
    /\ UNCHANGED <<clientVars, ufLinks, graph, pc, error, kruskalVars, primVars, dijkstraVars>>

UfNext ==
    \/ \E x, y \in Elements : UfUnion(x, y)
    \/ \E x \in Elements : UfFind(x)
    \/ \E x, y \in Elements : UfConnected(x, y)

UfSpec == UfInit /\ [][UfNext]_vars

(***************************************************************************)
(* The browser client: the handlers of class AlgorithmVisualizer that      *)
(* read or write the trace shown, and the answers of the server.  A graph  *)
(* is named by its content; the steps of an answer carry the algorithm and *)
(* the graph of the request they were computed for.                        *)
(***************************************************************************)
Algorithms == {"kruskal", "prim", "dijkstra"}

\* The graphs the client can hold: the sample graph, the outcomes of
\* generateRandomGraph, and a graph parsed from the text area.
RandomGraphNames == {"random1", "random2"}

GraphNames == {"sample", "custom"} \union RandomGraphNames

\* The text of the text area: a graph, or a text loadCustomGraph refuses.
GraphInputs == {"custom", "invalid"}

\* The values of the select source-node: nothing selected, or a node.
SourceNodes == {"", "A"}

\* result.steps of the answer to a request: the trace of the engine the
\* request was posted to on the graph in its body, here its first and last
\* step.
ServerSteps(request) ==
    << [action |-> "initialize", algorithm |-> request.algorithm, graph |-> request.graph],
       [action |-> "complete", algorithm |-> request.algorithm, graph |-> request.graph] >>

\* setLoading(isLoading): the state of the run button
setLoading(isLoading) == isLoading

\* resetVisualization()
resetVisualization ==
    /\ algorithmSteps' = <<>>
    /\ currentStep' = 0
    /\ runDisabled' = FALSE
    /\ stepDisabled' = TRUE

\* switchAlgorithm(algorithm): a click on a navigation button
SwitchAlgorithm(algorithm) ==
    /\ currentAlgorithm # algorithm
    /\ currentAlgorithm' = algorithm
    /\ resetVisualization
    /\ UNCHANGED <<currentGraph, alertShown, pending>>
    /\ UNCHANGED <<graph, pc, error, kruskalVars, primVars, dijkstraVars, ufVars>>

\* loadSampleGraph(): a click on the sample graph button
LoadSampleGraph ==
    /\ currentGraph' = "sample"
    /\ resetVisualization
    /\ UNCHANGED <<currentAlgorithm, alertShown, pending>>
    /\ UNCHANGED <<graph, pc, error, kruskalVars, primVars, dijkstraVars, ufVars>>

\* generateRandomGraph(): a click on the random graph button
GenerateRandomGraph ==
    /\ \E name \in RandomGraphNames : currentGraph' = name
    /\ resetVisualization
    /\ UNCHANGED <<currentAlgorithm, alertShown, pending>>
    /\ UNCHANGED <<graph, pc, error, kruskalVars, primVars, dijkstraVars, ufVars>>

\* loadCustomGraph(): a click on the load button, with the text of the text
\* area
LoadCustomGraph(input) ==
    /\ IF input = "invalid"
       THEN /\ alertShown' = "Error loading custom graph"
            /\ UNCHANGED <<currentGraph, algorithmSteps, currentStep, runDisabled,
                           stepDisabled>>
       ELSE /\ currentGraph' = input
            /\ resetVisualization
            /\ UNCHANGED alertShown
    /\ UNCHANGED <<currentAlgorithm, pending>>
    /\ UNCHANGED <<graph, pc, error, kruskalVars, primVars, dijkstraVars, ufVars>>

\* runAlgorithm() up to its await of fetch: a click on the run button, which
\* a disabled button does not deliver
RunAlgorithm(sourceNode) ==
    /\ ~runDisabled
    /\ BagCardinality(pending) < MaxInFlight
    /\ IF currentAlgorithm = "dijkstra" /\ sourceNode = ""
       THEN /\ alertShown' = "Please select a source node"
            /\ runDisabled' = setLoading(FALSE)
            /\ UNCHANGED pending
       ELSE /\ pending' = pending (+) SetToBag({[algorithm |-> currentAlgorithm,
                                                  graph |-> currentGraph]})
            /\ runDisabled' = setLoading(TRUE)
            /\ UNCHANGED alertShown
    /\ UNCHANGED <<currentAlgorithm, currentGraph, algorithmSteps, currentStep, stepDisabled>>
    /\ UNCHANGED <<graph, pc, error, kruskalVars, primVars, dijkstraVars, ufVars>>

\* this.algorithmSteps = result.steps || []: the steps of the answer are
\* installed whatever is selected and loaded by then.
Install(request) == ServerSteps(request)

\* runAlgorithm() after its await: the answer to a request arrives, with
\* the steps of a result or as a failure
ServerResponse(request, ok) ==
    /\ BagIn(request, pending)
    /\ pending' = pending (-) SetToBag({request})
    /\ IF ok
       THEN /\ algorithmSteps' = Install(request)
            /\ currentStep' = 0
            /\ stepDisabled' = FALSE
            /\ UNCHANGED alertShown
       ELSE /\ alertShown' = "Error running algorithm"
            /\ UNCHANGED <<algorithmSteps, currentStep, stepDisabled>>
    /\ runDisabled' = setLoading(FALSE)
    /\ UNCHANGED <<currentAlgorithm, currentGraph>>
    /\ UNCHANGED <<graph, pc, error, kruskalVars, primVars, dijkstraVars, ufVars>>

\* nextStep(): a click on the step button
NextStep ==
    /\ ~stepDisabled
    /\ currentStep < Len(algorithmSteps) - 1
    /\ currentStep' = currentStep + 1
    /\ UNCHANGED <<currentAlgorithm, currentGraph, algorithmSteps, runDisabled, stepDisabled,
                   alertShown, pending>>
    /\ UNCHANGED <<graph, pc, error, kruskalVars, primVars, dijkstraVars, ufVars>>

\* A click on the reset button
ResetClicked ==
    /\ ~stepDisabled
    /\ resetVisualization
    /\ UNCHANGED <<currentAlgorithm, currentGraph, alertShown, pending>>
    /\ UNCHANGED <<graph, pc, error, kruskalVars, primVars, dijkstraVars, ufVars>>

ClientInit ==
    /\ graph = [nodes |-> <<>>, edges |-> <<>>]
    /\ EnginesIdle
    /\ ClientConstructed
    /\ ufObj = UnionFind(0)
    /\ ufLinks = {}
    /\ ufLast = NoCall(UnionFind(0))

ClientNext ==
    \/ \E algorithm \in Algorithms : SwitchAlgorithm(algorithm)
    \/ LoadSampleGraph
    \/ GenerateRandomGraph
    \/ \E input \in GraphInputs : LoadCustomGraph(input)
    \/ \E sourceNode \in SourceNodes : RunAlgorithm(sourceNode)
    \/ \E request \in BagToSet(pending), ok \in BOOLEAN : ServerResponse(request, ok)
    \/ NextStep
    \/ ResetClicked

ClientSpec == ClientInit /\ [][ClientNext]_vars


(***************************************************************************)
(* Properties                                                              *)
(***************************************************************************)

\* C1: in the trace a successful run of any of the three engines returns,
\* the first step has number 0 and every later step has a number
\* strictly greater than the step before it.  (Fails for Kruskal: after the
\* complete step, numbered index + 2, forEach goes on, and the next edge's
\* step is numbered index + 2 again.)
C1_StepNumbersStrictlyIncrease ==
    /\ kResult # <<>> => StepNumbersIncrease(kruskalTrace)
    /\ pResult # <<>> => StepNumbersIncrease(primTrace)
    /\ dResult # <<>> => StepNumbersIncrease(dijkstraTrace)

\* C2: in a returned Kruskal trace a complete step is the last step, so
\* there is at most one and no accept or reject step follows it.  (Fails:
\* the edges that follow in sorted order are still examined, and each is
\* followed by one more complete step.)
C2_CompleteStepIsLast ==
    kResult # <<>> =>
        \A i \in DOMAIN kruskalTrace :
            kruskalTrace[i].action = "complete" => i = Len(kruskalTrace)

\* C3: the traces only grow by appending: whatever an engine does to its
\* live state, every step already in a trace reads afterwards exactly as it
\* read before.
C3_StepsAreSnapshots ==
    [][/\ PrefixOf(kruskalTrace, kruskalTrace')
       /\ PrefixOf(primTrace, primTrace')
       /\ PrefixOf(dijkstraTrace, dijkstraTrace')]_vars

\* C3 witness: Kruskal and Prim have both returned, and in each the live
\* mstEdges (and Prim's visited set and frontier) have moved on from what
\* the first step recorded.
C3_Witness ==
    /\ pc = "primDone"
    /\ kResult # <<>>
    /\ kruskalTrace[1].mstEdges # kMstEdges
    /\ primTrace[1].mstEdges # pMstEdges
    /\ primTrace[1].visitedNodes # pVisited
    /\ primTrace[1].priorityQueue # pQueue

\* C4 as stated: on every connected graph (every node reaches every node
\* along the adjacency arcs) and for every node of it as Prim's start node,
\* Kruskal's and Prim's totalCost are equal.  (Fails with a directed edge:
\* Kruskal ignores the direction, Prim only follows the arc from -> to.)
C4_CostsAgreeOnConnectedGraphs ==
    (/\ pc = "primDone"
     /\ kResult # <<>>
     /\ StronglyConnected(graph)
     /\ pResult[1].startNode \in NodeIds(graph))
    => pResult[1].totalCost = kResult[1].totalCost

\* C4 amended: on every connected graph without a directed edge (weights
\* being integers) and for every node of it as Prim's start node, Kruskal's
\* and Prim's totalCost are equal, also under weight ties.
C4_CostsAgreeOnUndirectedGraphs ==
    (/\ pc = "primDone"
     /\ kResult # <<>>
     /\ WeightsAreNumbers(graph)
     /\ NoDirectedEdge(graph)
     /\ WeaklyConnected(graph)
     /\ pResult[1].startNode \in NodeIds(graph))
    => pResult[1].totalCost = kResult[1].totalCost

\* C4 witness: both engines returned on a connected undirected graph with
\* a weight tie, Prim started from another node than the first, and the two
\* chose different edges.
C4_Witness ==
    /\ pc = "primDone"
    /\ kResult # <<>>
    /\ NoDirectedEdge(graph)
    /\ WeaklyConnected(graph)
    /\ pResult[1].startNode \in NodeIds(graph) \ {graph.nodes[1]}
    /\ \E i, j \in DOMAIN graph.edges : i # j /\ graph.edges[i].weight = graph.edges[j].weight
    /\ {e.id : e \in Range(pResult[1].mstEdges)} # {e.id : e \in Range(kResult[1].mstEdges)}
    /\ pResult[1].totalCost = kResult[1].totalCost

\* C5: on every connected graph without a directed edge (every weight a
\* non-negative number, as in every valid graph), the mstEdges of
\* Kruskal's result are the edges of a spanning tree of the graph, and
\* totalCost is their total weight and the least total weight of any
\* spanning tree.
C5_KruskalIsMinimumSpanningTree ==
    (/\ pc = "kruskalDone"
     /\ WeightsAreNumbers(graph)
     /\ NoDirectedEdge(graph)
     /\ WeaklyConnected(graph))
    => LET mst == kResult[1].mstEdges
       IN  /\ \E T \in SpanningTrees(graph) :
                  /\ Range(mst) = {WithStatus(graph.edges[k], "accepted") : k \in T}
                  /\ Len(mst) = Cardinality(T)
                  /\ kResult[1].totalCost = WeightSum(graph.edges, T)
           /\ kResult[1].totalCost = MinSpanningCost(graph)

\* C5 witness: Kruskal returned on the sample graph, which has spanning
\* trees of several costs, with the tree of cost 12.
C5_Witness ==
    /\ pc = "kruskalDone"
    /\ graph = SampleGraph
    /\ kResult[1].totalCost = 12
    /\ \E T \in SpanningTrees(graph) : WeightSum(graph.edges, T) > 12

\* C6: after a Dijkstra run without target, the distance of every node in
\* the result is the least weight of a path from the source along the
\* adjacency arcs, and Infinity exactly when no path exists; on the sample
\* graph from A, D is at 2 and F at 8.
C6_DistancesAreShortest ==
    (pc = "dijkstraDone" /\ dTarget = Null)
    => /\ dResult[1].distances = TrueDistances(graph, dSource)
       /\ \A n \in NodeIds(graph) :
              dResult[1].distances[n] = Infinity
                  <=> n \notin Closure({dSource}, AdjArcs(graph))
       /\ (graph = SampleGraph /\ dSource = "A")
              => dResult[1].distances["D"] = 2 /\ dResult[1].distances["F"] = 8

\* C6 witness: the run on the sample graph from A without target returned,
\* with D at 2 and F at 8.
C6_Witness ==
    /\ pc = "dijkstraDone"
    /\ dTarget = Null
    /\ graph = SampleGraph
    /\ dSource = "A"
    /\ dResult[1].distances["D"] = 2
    /\ dResult[1].distances["F"] = 8

\* C7: in every step of a Kruskal trace the accepted edges form a forest
\* over the graph's nodes.
C7_AcceptedEdgesAreAForest ==
    \A i \in DOMAIN kruskalTrace :
        IsForest(NodeIds(graph), kruskalTrace[i].mstEdges)

\* C7 witness: a reject step: the edge examined would have closed a cycle
\* with two edges accepted before it.
C7_Witness ==
    \E i \in DOMAIN kruskalTrace :
        /\ kruskalTrace[i].action = "reject"
        /\ Len(kruskalTrace[i].mstEdges) >= 2
        /\ kruskalTrace[i].currentEdge[1].from # kruskalTrace[i].currentEdge[1].to

\* C8: when the graph is connected, Kruskal's result has exactly
\* min(edgeCount, nodeCount - 1) accepted edges, and its edgeCount is the
\* length of its mstEdges.
C8_ConnectedGraphGivesFullTree ==
    (pc = "kruskalDone" /\ WeaklyConnected(graph))
    => /\ Len(kResult[1].mstEdges) = Min(Len(graph.edges), Len(graph.nodes) - 1)
       /\ kResult[1].edgeCount = Len(kResult[1].mstEdges)

\* C8 witness: Kruskal returned on a connected graph of three nodes or more
\* that has more edges than a tree needs.
C8_Witness ==
    /\ pc = "kruskalDone"
    /\ WeaklyConnected(graph)
    /\ Len(graph.nodes) >= 3
    /\ Len(graph.edges) > Len(graph.nodes) - 1
    /\ kResult[1].edgeCount = Len(graph.nodes) - 1

\* C9: an edge whose from or to is no node's id makes no engine throw and
\* appears in no step's edge collection, nor in an adjacency list.  (Fails:
\* Kruskal's sortedEdges lists every edge of the graph.)
C9_EdgesToUnknownNodesAppearNowhere ==
    /\ (validateGraph(graph) = "ok" /\ pc = "failed")
           => error \in {"Dijkstra algorithm error: Source node ID is required",
                         "Dijkstra algorithm error: Source node '" \o Unknown
                             \o "' not found in graph",
                         "Prim algorithm error: No valid start node found"}
    /\ \A i \in DOMAIN kruskalTrace :
           /\ \A e \in Range(kruskalTrace[i].sortedEdges) : KnownEnds(graph, e)
           /\ \A e \in Range(kruskalTrace[i].mstEdges) : KnownEnds(graph, e)
           /\ \A e \in Range(kruskalTrace[i].currentEdge) : KnownEnds(graph, e)
    /\ \A i \in DOMAIN primTrace :
           /\ \A e \in Range(primTrace[i].priorityQueue) : KnownEnds(graph, e)
           /\ \A e \in Range(primTrace[i].mstEdges) : KnownEnds(graph, e)
           /\ \A e \in Range(primTrace[i].newEdgesAdded) : KnownEnds(graph, e)
           /\ \A e \in Range(primTrace[i].currentEdge) : KnownEnds(graph, e)
    /\ validateGraph(graph) = "ok"
           => \A a \in AdjArcs(graph) : a[1] \in NodeIds(graph) /\ a[2] \in NodeIds(graph)

\* C10: in every step of a Dijkstra trace, a non-empty path of
\* shortestPaths[nodeId] begins with the source and ends with nodeId.
C10_PathsRunFromSourceToNode ==
    \A i \in DOMAIN dijkstraTrace :
        \A nodeId \in DOMAIN dijkstraTrace[i].shortestPaths :
            LET path == dijkstraTrace[i].shortestPaths[nodeId].path
            IN  Len(path) > 0 => path[1] = dSource /\ path[Len(path)] = nodeId

\* C10 witness: a step that holds a path of three nodes or more, and a
\* complete step that holds an empty path for a node without one.
C10_Witness ==
    /\ \E i \in DOMAIN dijkstraTrace :
           \E nodeId \in DOMAIN dijkstraTrace[i].shortestPaths :
               Len(dijkstraTrace[i].shortestPaths[nodeId].path) >= 3
    /\ \E i \in DOMAIN dijkstraTrace :
           \E nodeId \in DOMAIN dijkstraTrace[i].shortestPaths :
               Len(dijkstraTrace[i].shortestPaths[nodeId].path) = 0

\* The target of the Dijkstra run can be reached from its source along the
\* adjacency arcs (the id of no node can never be).
TargetReachable == dTarget \in Closure({dSource}, AdjArcs(graph))

\* The last step of the returned Dijkstra trace.
LastDijkstraStep == dijkstraTrace[Len(dijkstraTrace)]

\* C11: when the target of a Dijkstra run cannot be reached from the source,
\* the run does not fail, its last step is a complete step whose description
\* says that no path exists from the source to the target, and the distance
\* of the target is Infinity in that step and in the result.  (Fails for a
\* target that is the id of no node: distances has no entry for it, and the
\* description is built by the branch for a finite distance.)
C11_UnreachableTargetReportsNoPath ==
    (pc = "dijkstraDone" /\ dTarget # Null /\ ~TargetReachable)
    => /\ LastDijkstraStep.action = "complete"
       /\ LastDijkstraStep.description
              = "No path exists from " \o dSource \o " to " \o dTarget
       /\ At(LastDijkstraStep.distances, dTarget) = Infinity
       /\ At(dResult[1].distances, dTarget) = Infinity

\* C12: pathExists of a Dijkstra result is true when no target was given,
\* and with a target it is true exactly when the target can be reached from
\* the source.  (Fails for a target that is the id of no node: undefined is
\* not Infinity, so pathExists is true.)
C12_PathExistsIffTargetReachable ==
    pc = "dijkstraDone"
    => dResult[1].pathExists = (dTarget = Null \/ TargetReachable)

\* C13: a returned Prim trace has a complete step, as its last step, if and
\* only if every node of the graph was reached (the last step's visitedNodes
\* are exactly the graph's nodes); without one the run still returns a
\* result.  (Fails with a start node that is the id of no node, which Prim
\* accepts: on a graph of one node the visited set {start} is as large as
\* the node list, and the complete step is emitted with no node reached.)
C13_CompleteIffEveryNodeReached ==
    pc = "primDone"
    => LET last == primTrace[Len(primTrace)]
       IN  /\ pResult # <<>>
           /\ \A i \in DOMAIN primTrace :
                  primTrace[i].action = "complete" => i = Len(primTrace)
           /\ last.action = "complete"
                  <=> Range(last.visitedNodes) = Range(graph.nodes)

\* C20: primAlgorithm produces no trace when the graph has no usable start
\* node: every run that got as far as a first step started from the id of a
\* node of the graph.  (Fails: a startNodeId that is the id of no node is
\* taken as it is.)
C20_PrimNeedsUsableStartNode ==
    pSteps # <<>> => pVisited[1] \in NodeIds(graph)

\* The positions in Kruskal's sorted edges of the edges the loop examines:
\* those whose two endpoints are nodes of the graph.
Examined == {k \in DOMAIN kEdges : KnownEnds(graph, kEdges[k])}

\* The last of these positions.
LastExamined == CHOOSE k \in Examined : \A j \in Examined : j <= k

\* The last step of the returned Kruskal trace.
LastKruskalStep == kruskalTrace[Len(kruskalTrace)]

\* The Kruskal run returned with fewer accepted edges than a spanning tree
\* has, on a graph whose weights are all non-negative numbers.
PartialForest ==
    /\ pc = "kruskalDone"
    /\ WeightsAreNumbers(graph)
    /\ Len(kMstEdges) < Len(graph.nodes) - 1

\* The result reports the accepted edges, their number and their weight.
ResultReportsForest ==
    /\ kResult[1].mstEdges = kMstEdges
    /\ kResult[1].edgeCount = Len(kMstEdges)
    /\ kResult[1].totalCost = SumSeq([k \in DOMAIN kMstEdges |-> kMstEdges[k].weight])

\* The last step is the accept or reject step of the last examined edge.
EndsWithLastExaminedEdge ==
    /\ LastKruskalStep.action \in {"accept", "reject"}
    /\ LastKruskalStep.step = LastExamined
    /\ LastKruskalStep.currentEdge
           = <<WithStatus(kEdges[LastExamined],
                          IF LastKruskalStep.action = "accept" THEN "accepted"
                          ELSE "rejected")>>

\* C14 as stated: when fewer than nodeCount - 1 edges were accepted, the
\* Kruskal trace has no complete step, its last step is the accept or reject
\* step of the last examined edge, and the result reports the partial
\* forest.  (Fails when no edge is examined at all: the trace is the
\* initialize step alone.)
C14_PartialForestEndsWithLastEdge ==
    PartialForest
    => /\ \A i \in DOMAIN kruskalTrace : kruskalTrace[i].action # "complete"
       /\ Examined # {} /\ EndsWithLastExaminedEdge
       /\ ResultReportsForest

\* C14 amended: when fewer than nodeCount - 1 edges were accepted, the
\* Kruskal trace has no complete step; its last step is the accept or reject
\* step of the last examined edge if an edge was examined, and the
\* initialize step, alone in the trace, if none was; the run returns, and
\* the result reports the partial forest, its weight and its size.
C14_PartialForestEndsWithoutComplete ==
    PartialForest
    => /\ \A i \in DOMAIN kruskalTrace : kruskalTrace[i].action # "complete"
       /\ IF Examined # {} THEN EndsWithLastExaminedEdge
          ELSE Len(kruskalTrace) = 1 /\ LastKruskalStep.action = "initialize"
       /\ ResultReportsForest

\* C14 witness: Kruskal returned a forest of one edge on three nodes, and
\* its last step rejected the last edge, which joined the same two nodes.
C14_Witness ==
    /\ PartialForest
    /\ Len(graph.nodes) = 3
    /\ Len(kMstEdges) = 1
    /\ Examined # {}
    /\ LastKruskalStep.action = "reject"
    /\ LastKruskalStep.step = Len(kEdges)
    /\ kResult[1].totalCost = kMstEdges[1].weight

\* The positions in the Dijkstra trace of the steps with this action.
DijkstraStepsWith(action) ==
    {i \in DOMAIN dijkstraTrace : dijkstraTrace[i].action = action}

\* C15: the trace of every Dijkstra run that returned, with or without a
\* target, reachable or not, begins with its only initialize step and ends
\* with its only complete step.
C15_TraceRunsFromInitializeToComplete ==
    pc = "dijkstraDone"
    => /\ Len(dijkstraTrace) >= 2
       /\ DijkstraStepsWith("initialize") = {1}
       /\ DijkstraStepsWith("complete") = {Len(dijkstraTrace)}

\* C15 witness: a run returned whose target is a node that cannot be
\* reached, after it processed the source and another node.
C15_Witness ==
    /\ pc = "dijkstraDone"
    /\ dTarget \in NodeIds(graph)
    /\ ~TargetReachable
    /\ Cardinality(DijkstraStepsWith("process_node")) >= 2
    /\ DijkstraStepsWith("update_distances") # {}

\* The arcs that leave the node towards a neighbour not yet visited whose
\* distance the arc would improve.
OpenArcs(nodeId, visited, distances) ==
    {a \in WeightedArcs(graph) :
        /\ a[1] = nodeId
        /\ a[2] \notin Range(visited)
        /\ Lt(Plus(distances[nodeId], a[3]), distances[a[2]])}

\* C16: in a Dijkstra run with a target, the process_node step of the target
\* is directly followed by the complete step, which is the last: distances,
\* previous and visited are in the complete step what they were when the
\* target was processed, and no step lies between the two.
C16_TargetStepIsFollowedByComplete ==
    (pc = "dijkstraDone" /\ dTarget # Null)
    => \A i \in DijkstraStepsWith("process_node") :
           dijkstraTrace[i].currentNode = dTarget
           => /\ i + 1 = Len(dijkstraTrace)
              /\ dijkstraTrace[i + 1].action = "complete"
              /\ dijkstraTrace[i + 1].distances = dijkstraTrace[i].distances
              /\ dijkstraTrace[i + 1].previous = dijkstraTrace[i].previous
              /\ dijkstraTrace[i + 1].visited = dijkstraTrace[i].visited

\* C16 witness: a run returned whose target, not the source, was processed
\* while an arc from it led to an unvisited neighbour it would have improved.
C16_Witness ==
    /\ pc = "dijkstraDone"
    /\ dTarget # Null
    /\ dTarget # dSource
    /\ \E i \in DijkstraStepsWith("process_node") :
           /\ dijkstraTrace[i].currentNode = dTarget
           /\ OpenArcs(dTarget, dijkstraTrace[i].visited, dijkstraTrace[i].distances) # {}

\* C17: after a Dijkstra run that stopped at its target, every node that was
\* never processed has distance Infinity and an empty path in the result.
\* (Fails: a neighbour of a processed node keeps the distance and previous
\* pointer it got when that node was processed, and the final paths are
\* built for every node of the graph.)
C17_UnprocessedNodesStayUnset ==
    (pc = "dijkstraDone" /\ dTarget # Null /\ dTarget \in Range(dVisited))
    => \A n \in NodeIds(graph) \ Range(dVisited) :
           /\ dResult[1].distances[n] = Infinity
           /\ dResult[1].shortestPaths[n].path = <<>>

\* The messages of the errors validateGraph throws.
ValidationMessages ==
    {"Graph must contain nodes and edges arrays",
     "Nodes and edges must be arrays",
     "Graph must have at least one node",
     "Each edge must have from, to, and weight properties",
     "Edge weights must be non-negative numbers"}

\* The errors with which an engine ("Kruskal", "Prim", "Dijkstra") refuses a
\* graph.
GraphErrors(engine) == {engine \o " algorithm error: " \o m : m \in ValidationMessages}

\* The graph lacks a nodes or edges array, has no node, or has an edge that
\* lacks from, to or weight or whose weight is negative or not a number.
Malformed(g) ==
    IF "nodes" \notin DOMAIN g \/ "edges" \notin DOMAIN g THEN TRUE
    ELSE IF ~IsArray(g.nodes) \/ ~IsArray(g.edges) THEN TRUE
    ELSE \/ Len(g.nodes) = 0
         \/ \E k \in DOMAIN g.edges :
                \/ g.edges[k].from = Null
                \/ g.edges[k].to = Null
                \/ g.edges[k].weight = Undefined
                \/ g.edges[k].weight \notin Nat

\* What the start of an engine does with the graph: a malformed graph is
\* refused, leaving no step and no result; no other graph is refused as a
\* graph.
RefusedIffMalformed(engine, steps, result) ==
    IF Malformed(graph)
    THEN pc' = "failed" /\ error' \in GraphErrors(engine) /\ steps = <<>> /\ result = <<>>
    ELSE ~(pc' = "failed" /\ error' \in GraphErrors(engine))

\* C18: each of the three engines fails, with no step and no result, on a
\* graph that lacks a nodes or edges array, has no node, or has an edge that
\* lacks from, to or weight or whose weight is negative or not a number, and
\* on no other graph does it fail for such a reason (a weight of 0 is
\* accepted).  (Fails for a weight that is NaN: it is of type number and
\* not less than 0, so validateGraph accepts the graph.)
C18_MalformedGraphsAreRefused ==
    [][/\ KruskalStart => RefusedIffMalformed("Kruskal", kSteps', kResult')
       /\ (\E startNodeId \in StartNodeIds : PrimStart(startNodeId))
              => RefusedIffMalformed("Prim", pSteps', pResult')
       /\ (\E request \in DijkstraRequests : DijkstraStart(request[1], request[2]))
              => RefusedIffMalformed("Dijkstra", dSteps', dResult')]_vars

\* The error a Dijkstra run must end with, "ok" when with none: that of the
\* graph if it is invalid, else that of the source.
ExpectedDijkstraError ==
    IF validateGraph(graph) # "ok" THEN validateGraph(graph)
    ELSE IF dSource = Null THEN "Source node ID is required"
    ELSE IF dSource \notin NodeIds(graph)
         THEN "Source node '" \o dSource \o "' not found in graph"
    ELSE "ok"

\* The Dijkstra run has got past its checks.
DijkstraPastChecks == pc \in {"dijkstra", "dijkstraBreak", "dijkstraDone"}

\* The engine whose run failed was dijkstraAlgorithm.
DijkstraFailed ==
    /\ pc = "failed"
    /\ error \in GraphErrors("Dijkstra")
                     \union {"Dijkstra algorithm error: Source node ID is required"}
                     \union (IF dSource = Null THEN {}
                             ELSE {"Dijkstra algorithm error: Source node '" \o dSource
                                       \o "' not found in graph"})

\* C19: dijkstraAlgorithm fails, with no step, with the missing-source error
\* when no source is given and with the unknown-source error when the source
\* is the id of no node, and on an invalid graph it fails with the error of
\* the graph whatever the source; with a valid graph and a source that is a
\* node it goes on.
C19_SourceCheckedAfterGraph ==
    /\ DijkstraFailed
           => /\ dSteps = <<>>
              /\ dResult = <<>>
              /\ ExpectedDijkstraError # "ok"
              /\ error = "Dijkstra algorithm error: " \o ExpectedDijkstraError
    /\ DijkstraPastChecks => ExpectedDijkstraError = "ok"

\* C19 witness: a run with a source that is the id of no node failed on an
\* invalid graph, with the error of the graph.
C19_Witness ==
    /\ DijkstraFailed
    /\ dSource = Unknown
    /\ validateGraph(graph) # "ok"
    /\ error = "Dijkstra algorithm error: " \o validateGraph(graph)

\* The entries an edge adds to the adjacency lists, each with the node it is
\* listed under: none when an endpoint is no node; else one under from and,
\* unless the edge is directed, one under to that points back to from.
EntriesOf(g, edge) ==
    IF ~KnownEnds(g, edge) THEN <<>>
    ELSE LET name == IF edge.id # Null THEN edge.id ELSE edge.from \o "-" \o edge.to
         IN  <<[under |-> edge.from, to |-> edge.to, weight |-> edge.weight,
                edgeId |-> name]>>
             \o (IF edge.directed THEN <<>>
                 ELSE <<[under |-> edge.to, to |-> edge.from, weight |-> edge.weight,
                         edgeId |-> name]>>)

\* The entries of the first k edges, in the order of the edges.
RECURSIVE EntriesUpTo(_, _)
EntriesUpTo(g, k) ==
    IF k = 0 THEN <<>> ELSE EntriesUpTo(g, k - 1) \o EntriesOf(g, g.edges[k])

\* The list of a node: the entries listed under it, without the node.
EntriesUnder(g, id) ==
    LET mine == SelectSeq(EntriesUpTo(g, Len(g.edges)), LAMBDA entry : entry.under = id)
    IN  [i \in DOMAIN mine |->
            [to |-> mine[i].to, weight |-> mine[i].weight, edgeId |-> mine[i].edgeId]]

\* C23: createAdjacencyList gives every node id a list, and the lists hold,
\* in the order of the edges, for each edge between two nodes one entry
\* under from and, unless it is directed, one under to that points back,
\* both with the edge's weight and with its id or, without id, "from-to".
C23_AdjacencyListHoldsEveryEdge ==
    (validateGraph(graph) = "ok" /\ WeightsAreNumbers(graph))
    => LET adjList == createAdjacencyList(graph)
       IN  /\ DOMAIN adjList = NodeIds(graph)
           /\ \A id \in NodeIds(graph) : adjList[id] = EntriesUnder(graph, id)

\* C23 witness: Prim has built the adjacency list of a graph whose edges
\* have no id, and a node lists, under the name "from-to", an edge of which
\* it is the to.
C23_Witness ==
    /\ pc = "prim"
    /\ \E k \in DOMAIN graph.edges :
           LET edge == graph.edges[k]
           IN  /\ edge.id = Null
               /\ KnownEnds(graph, edge)
               /\ edge.from # edge.to
               /\ \E i \in DOMAIN createAdjacencyList(graph)[edge.to] :
                      createAdjacencyList(graph)[edge.to][i]
                          = [to |-> edge.from, weight |-> edge.weight,
                             edgeId |-> Dash(edge.from, edge.to)]

\* C24: no step of an engine, whether it goes on, returns or throws, changes
\* the caller's graph: nodes and edges keep their elements, their order and
\* their field values.
C24_GraphIsNeverModified == [][graph' = graph]_vars

\* C24 witness: Kruskal and Prim have both returned on a graph whose edges
\* Kruskal had to reorder, and some edges were accepted (annotated).
C24_Witness ==
    /\ pc = "primDone"
    /\ kResult # <<>>
    /\ kEdges # graph.edges
    /\ kMstEdges # <<>>
    /\ pMstEdges # <<>>

\* An entry of sortedEdges, or a currentEdge, without its annotation.
Unannotated(e) ==
    [id |-> e.id, from |-> e.from, to |-> e.to, weight |-> e.weight,
     directed |-> e.directed]

\* The place of the k-th input edge in nondecreasing weight with equal
\* weights in input order: behind every lighter edge and every earlier edge
\* of the same weight.
PlaceOf(edges, k) ==
    1 + Cardinality({j \in DOMAIN edges :
                        \/ edges[j].weight < edges[k].weight
                        \/ edges[j].weight = edges[k].weight /\ j < k})

\* The accept and reject steps of the Kruskal trace, in order.
ExaminingSteps == SelectSeq(kruskalTrace, LAMBDA step : step.action \in {"accept", "reject"})

\* C25: in every step of a Kruskal trace, sortedEdges holds every input
\* edge at its place in nondecreasing weight, equal weights in input order;
\* the accept and reject steps, one for each edge between two nodes of the
\* graph, come in that order and are numbered by the place of their edge.
C25_EdgesExaminedInSortedOrder ==
    (kruskalTrace # <<>> /\ WeightsAreNumbers(graph))
    => /\ \A i \in DOMAIN kruskalTrace :
              /\ Len(kruskalTrace[i].sortedEdges) = Len(graph.edges)
              /\ \A k \in DOMAIN graph.edges :
                     Unannotated(kruskalTrace[i].sortedEdges[PlaceOf(graph.edges, k)])
                         = graph.edges[k]
       /\ LET places == {PlaceOf(graph.edges, k) : k \in GoodEdges(graph)}
          IN  /\ \A j \in DOMAIN ExaminingSteps :
                     /\ ExaminingSteps[j].step \in places
                     /\ Cardinality({q \in places : q <= ExaminingSteps[j].step}) = j
                     /\ Unannotated(ExaminingSteps[j].currentEdge[1])
                            = Unannotated(kruskalTrace[1].sortedEdges[ExaminingSteps[j].step])
              /\ pc = "kruskalDone" => Len(ExaminingSteps) = Cardinality(places)

\* C25 witness: Kruskal returned on a graph with two edges of equal weight
\* that come after a heavier edge in the input, and with an edge that is
\* not examined.
C25_Witness ==
    /\ pc = "kruskalDone"
    /\ WeightsAreNumbers(graph)
    /\ GoodEdges(graph) # DOMAIN graph.edges
    /\ \E i, j, k \in DOMAIN graph.edges :
           /\ i < j /\ j < k
           /\ graph.edges[i].weight > graph.edges[j].weight
           /\ graph.edges[j].weight = graph.edges[k].weight

\* C26: in every step of a Dijkstra trace, the priorityQueue holds at most
\* one entry for a node, none for a visited node, and each entry's distance
\* is the distance of its node in that step.
C26_QueueHoldsOneFreshEntryPerNode ==
    \A i \in DOMAIN dijkstraTrace :
        LET queue == dijkstraTrace[i].priorityQueue
        IN  \A a \in DOMAIN queue :
                /\ \A b \in DOMAIN queue : queue[a].nodeId = queue[b].nodeId => a = b
                /\ queue[a].nodeId \notin Range(dijkstraTrace[i].visited)
                /\ queue[a].distance = dijkstraTrace[i].distances[queue[a].nodeId]

\* C26 witness: an update_distances step that lowered the finite distance
\* of a node that was in the queue, with another node in the queue.
C26_Witness ==
    \E i \in DOMAIN dijkstraTrace :
        /\ dijkstraTrace[i].action = "update_distances"
        /\ Len(dijkstraTrace[i].priorityQueue) >= 2
        /\ \E u \in Range(dijkstraTrace[i].updatedNeighbors) : u.oldDistance # "Infinity"

\* The status the edge at place k of the sorted edges has after step i of
\* the trace: that of the accept or reject step made for it, pending if no
\* step was made for it.
StatusAfter(trace, i, k) ==
    IF \E j \in 1..i : trace[j].action = "accept" /\ trace[j].step = k
    THEN "accepted"
    ELSE IF \E j \in 1..i : trace[j].action = "reject" /\ trace[j].step = k
         THEN "rejected"
         ELSE "pending"

\* C27: in every accept, reject and complete step of a Kruskal trace on a
\* valid graph, an entry of sortedEdges is 'accepted' exactly when the edge
\* is in the step's mstEdges, 'rejected' exactly when it was examined and
\* rejected, and 'pending' exactly when it has not been examined yet.
C27_SortedEdgesAnnotatedByOutcome ==
    (kruskalTrace # <<>> /\ WeightsAreNumbers(graph)) =>
        \A i \in DOMAIN kruskalTrace :
            LET step == kruskalTrace[i]
            IN  step.action \in {"accept", "reject", "complete"} =>
                    /\ Len(step.mstEdges) =
                           Cardinality({k \in DOMAIN step.sortedEdges :
                                           StatusAfter(kruskalTrace, i, k) = "accepted"})
                    /\ \A k \in DOMAIN step.sortedEdges :
                           step.sortedEdges[k].status = StatusAfter(kruskalTrace, i, k)

\* The places <<c, j>> of a node id in the components of a unionFindState.
PlacesOf(components, id) ==
    {p \in UNION {{<<c, j>> : j \in DOMAIN components[c]} : c \in DOMAIN components} :
        components[p[1]][p[2]] = id}

\* C28: in every step of a Kruskal trace, unionFindState is a partition of
\* the graph's node ids in which two nodes share a component exactly when
\* the step's mstEdges connect them; in the initialize step every node is
\* alone in its component.
C28_UnionFindStateIsThePartition ==
    \A i \in DOMAIN kruskalTrace :
        LET step == kruskalTrace[i]
            components == step.unionFindState
            links == BothWays(step.mstEdges, DOMAIN step.mstEdges)
            ids == NodeIds(graph)
        IN  /\ \A c \in DOMAIN components :
                   /\ components[c] # <<>>
                   /\ Range(components[c]) \subseteq ids
            /\ \A id \in ids : Cardinality(PlacesOf(components, id)) = 1
            /\ \A a, b \in ids :
                   (\E c \in DOMAIN components :
                        a \in Range(components[c]) /\ b \in Range(components[c]))
                   <=> b \in Closure({a}, links)
            /\ step.action = "initialize" =>
                   \A c \in DOMAIN components : Len(components[c]) = 1

\* C28 witness: a step after an accepted edge in which one component has two
\* nodes or more and another component remains.
C28_Witness ==
    \E i \in DOMAIN kruskalTrace :
        /\ kruskalTrace[i].action \in {"accept", "reject"}
        /\ Len(kruskalTrace[i].unionFindState) >= 2
        /\ \E c \in DOMAIN kruskalTrace[i].unionFindState :
               Len(kruskalTrace[i].unionFindState[c]) >= 2

\* The positions of the process_node steps of the Dijkstra trace.
ProcessSteps == {i \in DOMAIN dijkstraTrace : dijkstraTrace[i].action = "process_node"}

\* The distance the step at position i records for the node it processes.
ProcessedAt(i) == dijkstraTrace[i].distances[dijkstraTrace[i].currentNode]

\* C29: in a Dijkstra trace the nodes are processed in nondecreasing order
\* of distance, each in at most one process_node step, at its true shortest
\* distance from the source; the distance and the previous pointer of a
\* processed node never change afterwards, and no distance ever increases
\* from one step to the next.
C29_NodesAreFinalWhenProcessed ==
    /\ \A i, j \in ProcessSteps :
           /\ i < j => ~Lt(ProcessedAt(j), ProcessedAt(i))
           /\ i # j => dijkstraTrace[i].currentNode # dijkstraTrace[j].currentNode
    /\ \A i \in ProcessSteps :
           LET node == dijkstraTrace[i].currentNode
           IN  /\ ProcessedAt(i) = TrueDistances(graph, dSource)[node]
               /\ \A j \in DOMAIN dijkstraTrace :
                      j > i => /\ dijkstraTrace[j].distances[node] = ProcessedAt(i)
                               /\ dijkstraTrace[j].previous[node]
                                      = dijkstraTrace[i].previous[node]
    /\ \A i, j \in DOMAIN dijkstraTrace :
           i < j => \A id \in DOMAIN dijkstraTrace[i].distances :
                        ~Lt(dijkstraTrace[i].distances[id], dijkstraTrace[j].distances[id])

\* C29 witness: a finished run in which the distance of a node was lowered
\* from a finite value and the node was processed later, after two others.
C29_Witness ==
    /\ pc = "dijkstraDone"
    /\ \E i \in DOMAIN dijkstraTrace, j \in ProcessSteps :
           /\ i < j
           /\ Cardinality({k \in ProcessSteps : k < j}) >= 2
           /\ \E u \in Range(dijkstraTrace[i].updatedNeighbors) :
                  /\ u.nodeId = dijkstraTrace[j].currentNode
                  /\ u.oldDistance # "Infinity"

\* The frontier entries discovered up to step i of the Prim trace, in the
\* order of their discovery: the arcs of the start node, then the
\* newEdgesAdded of each step.
RECURSIVE Discovered(_)
Discovered(i) ==
    IF i = 1
    THEN LET startNode == primTrace[1].visitedNodes[1]
         IN  FrontierEdges(startNode, Neighbors(createAdjacencyList(graph), startNode),
                           <<startNode>>)
    ELSE Discovered(i - 1) \o primTrace[i].newEdgesAdded

\* C30: in every step of a Prim trace the priorityQueue is sorted in
\* nondecreasing weight, entries of equal weight are in the order of their
\* discovery, and every entry goes from a visited node to a node that is
\* not visited yet.
C30_FrontierIsSortedAndOpen ==
    \A i \in DOMAIN primTrace :
        LET queue == primTrace[i].priorityQueue
            visited == Range(primTrace[i].visitedNodes)
        IN  /\ \A a, b \in DOMAIN queue : a < b => queue[a].weight <= queue[b].weight
            /\ \A a \in DOMAIN queue :
                   queue[a].from \in visited /\ queue[a].to \notin visited
            /\ \A w \in {queue[a].weight : a \in DOMAIN queue} :
                   SelectSeq(queue, LAMBDA e : e.weight = w)
                       = SelectSeq(Discovered(i),
                                   LAMBDA e : e.weight = w /\ e.to \notin visited)

\* C30 witness: an accept step that leaves in the queue two entries of equal
\* weight discovered from different nodes, after a lighter entry.
C30_Witness ==
    \E i \in DOMAIN primTrace :
        /\ primTrace[i].action = "accept"
        /\ \E a, b, c \in DOMAIN primTrace[i].priorityQueue :
               /\ a < b /\ b < c
               /\ primTrace[i].priorityQueue[a].weight < primTrace[i].priorityQueue[b].weight
               /\ primTrace[i].priorityQueue[b].weight = primTrace[i].priorityQueue[c].weight
               /\ primTrace[i].priorityQueue[b].from # primTrace[i].priorityQueue[c].from

\* The root of x: the end of the parent links from x (without compression).
RECURSIVE RootOf(_, _, _)
RootOf(parent, x, fuel) ==
    IF parent[x] = x \/ fuel = 0 THEN x ELSE RootOf(parent, parent[x], fuel - 1)

Root(u, x) == RootOf(u.parent, x, Cardinality(DOMAIN u.parent))

\* C21: after any sequence of union, find and connected calls, connected(x, y)
\* is true exactly when a chain of the unions made so far links x and y;
\* union(x, y) returns true exactly when x and y were not linked before the
\* call, and a union that returns false leaves the partition and every rank
\* as they were.
C21_UnionFindFollowsTheUnions ==
    /\ \A x, y \in DOMAIN ufObj.parent :
           connected(ufObj, x, y).ret <=> Linked(ufLinks, x, y)
    /\ ufLast.op = "connected" => (ufLast.ret <=> ufLast.linked)
    /\ ufLast.op = "union" =>
           /\ ufLast.ret <=> ~ufLast.linked
           /\ ~ufLast.ret =>
                  /\ ufObj.rank = ufLast.before.rank
                  /\ \A x, y \in DOMAIN ufObj.parent :
                         (Root(ufObj, x) = Root(ufObj, y))
                             <=> (Root(ufLast.before, x) = Root(ufLast.before, y))

\* C21 witness: a union of two different elements that returned false and
\* compressed a path, after three unions that returned true.
C21_Witness ==
    /\ ufLast.op = "union"
    /\ ufLast.ret = FALSE
    /\ ufLast.x # ufLast.y
    /\ ufObj.parent # ufLast.before.parent
    /\ Cardinality({Root(ufObj, x) : x \in DOMAIN ufObj.parent}) = UfSize - 3

\* C22: find(x) returns a root r (parent[r] = r) and find(find(x)) = find(x);
\* a call of find or connected changes parent by path compression only: the
\* root of every element, hence the partition, and every rank stay the same.
C22_FindReturnsTheRootAndOnlyCompresses ==
    /\ ufLast.op = "find" =>
           /\ ufObj.parent[ufLast.ret] = ufLast.ret
           /\ find(ufObj, ufLast.ret).ret = ufLast.ret
           /\ find(find(ufObj, ufLast.x).uf, find(ufObj, ufLast.x).ret).ret
                  = find(ufObj, ufLast.x).ret
           /\ ufLast.ret = Root(ufLast.before, ufLast.x)
    /\ ufLast.op \in {"find", "connected"} =>
           /\ ufObj.rank = ufLast.before.rank
           /\ \A x \in DOMAIN ufObj.parent :
                  /\ Root(ufObj, x) = Root(ufLast.before, x)
                  /\ \/ ufObj.parent[x] = ufLast.before.parent[x]
                     \/ ufObj.parent[x] = Root(ufLast.before, x)

\* C22 witness: a find that compressed a path: the parent of its argument
\* was no root before the call and is the root returned after it.
C22_Witness ==
    /\ ufLast.op = "find"
    /\ ufLast.before.parent[ufLast.x] # ufLast.ret
    /\ ufObj.parent[ufLast.x] = ufLast.ret
    /\ ufObj.parent # ufLast.before.parent

\* The adjacency arcs <<from, to, weight>> that go from a node of visited
\* to a node that is not in visited.
CrossingArcs(g, visited) ==
    {arc \in WeightedArcs(g) : arc[1] \in visited /\ arc[2] \notin visited}

\* C31: every edge Prim accepts has, when it is accepted, the least weight
\* among the adjacency arcs from a visited node to an unvisited node, and
\* its far endpoint is the node the step adds to visitedNodes.
C31_AcceptedEdgeIsLightestCrossing ==
    \A i \in DOMAIN primTrace :
        primTrace[i].action = "accept" =>
            LET edge == primTrace[i].currentEdge[1]
                before == primTrace[i - 1].visitedNodes
                crossing == CrossingArcs(graph, Range(before))
            IN  /\ <<edge.from, edge.to, edge.weight>> \in crossing
                /\ \A arc \in crossing : edge.weight <= arc[3]
                /\ primTrace[i].visitedNodes = Append(before, edge.to)

\* C31 witness: an accept step whose edge was chosen among arcs that leave
\* two different visited nodes, one of them heavier than the edge.
C31_Witness ==
    \E i \in DOMAIN primTrace :
        /\ primTrace[i].action = "accept"
        /\ LET edge == primTrace[i].currentEdge[1]
               crossing == CrossingArcs(graph, Range(primTrace[i - 1].visitedNodes))
           IN  /\ \E arc \in crossing : arc[3] > edge.weight
               /\ \E a, b \in crossing : a[1] # b[1]

\* C32: no Prim run on a valid graph emits a step with action 'skip'.
C32_PrimNeverSkips ==
    \A i \in DOMAIN primTrace : primTrace[i].action # "skip"

\* C32 witness: a finished Prim run in which an accept step filtered out of
\* the frontier an entry into the node it had just visited.
C32_Witness ==
    /\ pc = "primDone"
    /\ \E i \in DOMAIN primTrace :
           /\ primTrace[i].action = "accept"
           /\ Len(primTrace[i].priorityQueue)
                  < Len(primTrace[i - 1].priorityQueue) - 1
                        + Len(primTrace[i].newEdgesAdded)

\* Step i of the Prim trace reports a tree on its visited nodes: distinct
\* visited ids that begin with the start node, |visitedNodes| - 1 edges that
\* form a tree connecting exactly them, and their weights as totalCost.
ReportsTree(i) ==
    LET step == primTrace[i]
        visited == step.visitedNodes
        mst == step.mstEdges
    IN  /\ Len(visited) >= 1
        /\ visited[1] = primTrace[1].visitedNodes[1]
        /\ Cardinality(Range(visited)) = Len(visited)
        /\ Len(mst) = Len(visited) - 1
        /\ IsForest(Range(visited), mst)
        /\ step.totalCost = SumSeq([k \in DOMAIN mst |-> mst[k].weight])

\* C33: in every step of a Prim trace, visitedNodes holds distinct ids of
\* graph nodes beginning with the start node, mstEdges has |visitedNodes| - 1
\* edges that form a tree connecting exactly the visited nodes, and
\* totalCost is the sum of the weights of mstEdges.  (Fails with a start
\* node that is the id of no node, which Prim accepts.)
C33_PrimStepsReportATree ==
    \A i \in DOMAIN primTrace :
        /\ Range(primTrace[i].visitedNodes) \subseteq NodeIds(graph)
        /\ ReportsTree(i)

\* The weights a walk along path can add up to, choosing for each
\* consecutive pair one of the adjacency arcs that join it in that
\* direction: empty when some pair is joined by no arc.
RECURSIVE WalkWeights(_, _)
WalkWeights(g, path) ==
    IF Len(path) <= 1 THEN {0}
    ELSE {arc[3] + rest :
            arc \in {a \in WeightedArcs(g) : a[1] = path[1] /\ a[2] = path[2]},
            rest \in WalkWeights(g, Tail(path))}

\* C34: in every process_node, update_distances and complete step of a
\* Dijkstra trace, each non-empty shortestPaths[n].path is a walk along
\* adjacency arcs whose weights add up to shortestPaths[n].distance, which is
\* distances[n] of the same step; and every visited node has a non-empty
\* path.
C34_PathsAreWalksOfTheirDistance ==
    \A i \in DOMAIN dijkstraTrace :
        LET step == dijkstraTrace[i]
            paths == step.shortestPaths
        IN  step.action \in {"process_node", "update_distances", "complete"} =>
                /\ \A n \in DOMAIN paths :
                       paths[n].path # <<>> =>
                           /\ paths[n].distance \in WalkWeights(graph, paths[n].path)
                           /\ paths[n].distance = step.distances[n]
                /\ \A n \in Range(step.visited) :
                       n \in DOMAIN paths /\ paths[n].path # <<>>

\* C34 witness: a step that reports a path of three nodes or more, one pair
\* of which is joined by two arcs of different weights.
C34_Witness ==
    \E i \in DOMAIN dijkstraTrace :
        \E n \in DOMAIN dijkstraTrace[i].shortestPaths :
            LET path == dijkstraTrace[i].shortestPaths[n].path
            IN  /\ Len(path) >= 3
                /\ Cardinality(WalkWeights(graph, path)) >= 2

\* C35: every Dijkstra run that passed its checks returns, and its trace
\* never has more than 2 * nodeCount + 2 steps.
C35_DijkstraTerminatesWithinBound ==
    /\ (pc = "dijkstra") ~> (pc = "dijkstraDone")
    /\ [](dSteps # <<>> => Len(dSteps) <= 2 * Len(graph.nodes) + 2)

\* C35 witness: a run that returned after an update_distances step for every
\* node but the last one processed, on a graph of three nodes or more.
C35_Witness ==
    /\ pc = "dijkstraDone"
    /\ Len(graph.nodes) >= 3
    /\ Len(dSteps) = 2 * Len(graph.nodes) + 1

\* C37: a union(x, y) that merges two sets whose roots have equal rank makes
\* the former root of x the root of the merged set and raises its rank by
\* exactly 1, no other rank changing; when the ranks differ the root of
\* higher rank becomes the root and no rank changes; after any sequence of
\* calls the parent links form a forest (they end at an element that is its
\* own parent) in which every non-root has a parent of strictly greater rank.
C37_UnionByRankKeepsRankedForest ==
    /\ (ufLast.op = "union" /\ ufLast.ret = TRUE) =>
           LET b == ufLast.before
               rootX == Root(b, ufLast.x)
               rootY == Root(b, ufLast.y)
               top == IF b.rank[rootX] >= b.rank[rootY] THEN rootX ELSE rootY
           IN  /\ Root(ufObj, ufLast.x) = top
               /\ Root(ufObj, ufLast.y) = top
               /\ ufObj.parent[top] = top
               /\ ufObj.rank = IF b.rank[rootX] = b.rank[rootY]
                                THEN [b.rank EXCEPT ![rootX] = b.rank[rootX] + 1]
                                ELSE b.rank
    /\ \A x \in DOMAIN ufObj.parent :
           /\ ufObj.parent[Root(ufObj, x)] = Root(ufObj, x)
           /\ ufObj.parent[x] # x => ufObj.rank[ufObj.parent[x]] > ufObj.rank[x]

\* C37 witness: a union that merged two sets of different ranks, the root of
\* x having the lower one, so that the root of y became the root.
C37_Witness ==
    /\ ufLast.op = "union"
    /\ ufLast.ret = TRUE
    /\ ufLast.before.rank[Root(ufLast.before, ufLast.x)]
           < ufLast.before.rank[Root(ufLast.before, ufLast.y)]
    /\ Root(ufObj, ufLast.x) = Root(ufLast.before, ufLast.y)
    /\ ufObj.rank = ufLast.before.rank

\* C36: in the browser client, under every interleaving of run,
\* switch-algorithm, load-graph, reset and server-response events, a
\* non-empty algorithmSteps was computed for the algorithm currently
\* selected and the graph currently loaded (an answer that arrives after the
\* algorithm or the graph was changed is not installed as the current
\* trace), and no second run is started while a request is in flight: at
\* most one request is unanswered at any time.
C36_TraceBelongsToSelectionAndOneRunInFlight ==
    /\ \A i \in 1..Len(algorithmSteps) :
           /\ algorithmSteps[i].algorithm = currentAlgorithm
           /\ algorithmSteps[i].graph = currentGraph
    /\ BagCardinality(pending) <= 1
====
